---------------------------- MODULE Spec2Model ----------------------------
(***************************************************************************)
(* A model of the Snap BI client of midtrans-client-typescript            *)
(* (src/src/snap-bi/index.ts, src/src/snap-bi/api-requestor.ts and the    *)
(* SnapBiConfig class): the signature protocol, the webhook verification  *)
(* and the request flow of one SnapBi instance with its asynchronous      *)
(* suspension points.                                                     *)
(*                                                                         *)
(* Text is modelled by TLA+ strings and built by concatenation, exactly   *)
(* as the code builds it.  The cryptographic primitives of Web Crypto are *)
(* symbolic: a digest, a MAC or a signature is the text naming the        *)
(* primitive, the key and the data, so two results are equal exactly when *)
(* key and data are (no collisions, no forgery).  Decoders (atob, the PEM *)
(* armor stripping) invert the encoders over the finite universe of texts *)
(* the model uses and fail on every other text.                           *)
(***************************************************************************)
EXTENDS Naturals, Sequences, FiniteSets, TLC

(***************************************************************************)
(* State.                                                                  *)
(***************************************************************************)

VARIABLES
  symIn,    \* the inputs of two calls of getSymmetricSignatureHmacSh512
  symOut,   \* their results, PENDING before the call
  rsaIn,    \* a text, a private key PEM and a public key PEM
  rsaSig,   \* signWithRsa of the text under the private key, PENDING before
  rsaVer,   \* verifySignature of that signature under the public key
  config,   \* the SnapBiConfig the instance was built with
  snapBi,   \* the private fields of the SnapBi instance
  wh,       \* the call of isWebhookNotificationVerified: position and locals
  now,      \* the clock read by new Date()
  frames,   \* the operations called on the instance: position and locals
  net,      \* the requests handed to fetch, in order
  hist,     \* the builder calls made so far (history, not program state)
  rc,       \* a call of SnapBiApiRequestor.remoteCall: inputs, position, timer
  hc        \* a call through HttpClient.request: inputs, request, outcome

symVars == <<symIn, symOut>>
rsaVars == <<rsaIn, rsaSig, rsaVer>>
objVars == <<config, snapBi>>
opVars == <<now, frames, net, hist>>
libVars == <<rc, hc>>
vars == <<symIn, symOut, rsaIn, rsaSig, rsaVer, config, snapBi, wh, now, frames, net, hist,
          rc, hc>>

(***************************************************************************)
(* Values                                                                  *)
(***************************************************************************)

\* JavaScript null for a configuration value that was never set.
null == "<null>"

\* JavaScript undefined as the value of an object member.
undefined == "<undefined>"

\* The marker of an exception thrown by a step (a rejected promise).
THROW == "<throw>"

\* !v for a string-or-null value: null and the empty string are falsy.
\* The test without its negation.
Truthy(v) == ~(v = null \/ v = "")

Falsy(v) == v = null \/ v = ""

\* v ?? '' : the nullish coalescing used when the configuration is read.
OrEmpty(v) == IF v = null THEN "" ELSE v

(***************************************************************************)
(* JSON.stringify of a request body.  A body is the sequence of its       *)
(* members in insertion order, each [k |-> name, v |-> JSON text of the   *)
(* value], or v = undefined for a member whose value is undefined, or    *)
(* v = NaNValue for the number NaN.  A body that cannot be serialised     *)
(* makes JSON.stringify throw.                                             *)
(***************************************************************************)

Members(b) == SelectSeq(b, LAMBDA m : m.v # undefined)

\* The number NaN as the value of a member: JSON.stringify writes null.
NaNValue == "<NaN>"

RECURSIVE JoinMembers(_)
JoinMembers(ms) ==
  IF ms = << >> THEN ""
  ELSE "\"" \o Head(ms).k \o "\":"
       \o (IF Head(ms).v = NaNValue THEN "null" ELSE Head(ms).v)
       \o (IF Tail(ms) = << >> THEN "" ELSE "," \o JoinMembers(Tail(ms)))

\* A BigInt as the value of a member: JSON.stringify throws a TypeError.
BigIntValue == "<bigint>"

JSONStringify(b) ==
  IF \E i \in DOMAIN b : b[i].v = BigIntValue THEN THROW
  ELSE "{" \o JoinMembers(Members(b)) \o "}"

(***************************************************************************)
(* String.prototype.toUpperCase.  A text that is upper-cased is held as   *)
(* the tuple of its characters.                                            *)
(***************************************************************************)

UpperChar(c) ==
  CASE c = "a" -> "A" [] c = "b" -> "B" [] c = "c" -> "C" [] c = "d" -> "D"
    [] c = "e" -> "E" [] c = "f" -> "F" [] c = "g" -> "G" [] c = "h" -> "H"
    [] c = "i" -> "I" [] c = "j" -> "J" [] c = "k" -> "K" [] c = "l" -> "L"
    [] c = "m" -> "M" [] c = "n" -> "N" [] c = "o" -> "O" [] c = "p" -> "P"
    [] c = "q" -> "Q" [] c = "r" -> "R" [] c = "s" -> "S" [] c = "t" -> "T"
    [] c = "u" -> "U" [] c = "v" -> "V" [] c = "w" -> "W" [] c = "x" -> "X"
    [] c = "y" -> "Y" [] c = "z" -> "Z" [] OTHER -> c

RECURSIVE Str(_)
Str(cs) == IF cs = << >> THEN "" ELSE Head(cs) \o Str(Tail(cs))

ToUpperCase(cs) == Str([i \in DOMAIN cs |-> UpperChar(cs[i])])


(***************************************************************************)
(* Binary data and base64 (btoa / atob).  Binary data is a text naming    *)
(* the bytes; Btoa is injective and Atob inverts it over BinaryUniverse,  *)
(* the binary values of the model, and throws on any other text.          *)
(***************************************************************************)

\* The RSA key pairs that exist.
KeyPairs == {"K1", "K2"}

\* The DER encodings of the two halves of a key pair.
Pkcs8Der(k) == "pkcs8-der<" \o k \o ">"
SpkiDer(k) == "spki-der<" \o k \o ">"

\* Bytes that are no key in any format.
JunkDer == "junk-der"

\* RSASSA-PKCS1-v1_5 with SHA-256 is deterministic: the signature of data
\* under a key pair is one value, and verification accepts exactly it.
RsaSignBytes(k, data) == "rsa-sha256<" \o k \o "|" \o data \o ">"

\* The block of SHA-512, in bytes.  HMAC pads a key of at most one block
\* with zero bytes, so trailing zero bytes of such a key do not change the
\* MAC: its key block is the secret without them.  A key longer than one
\* block is hashed first, and then every byte of it counts.
HmacBlockBytes == 128
NulChar == "\\u0000"
Secret16 == "0123456789abcdef"
\* A secret of exactly HmacBlockBytes bytes.
Secret128 == Secret16 \o Secret16 \o Secret16 \o Secret16
             \o Secret16 \o Secret16 \o Secret16 \o Secret16
SecretUniverse == {"S1", "S2", "S1" \o NulChar, "S2" \o NulChar,
                   Secret128, Secret128 \o NulChar}

\* encoder.encode(secret).length: NulChar is the text of one zero byte.
RECURSIVE ByteLength(_)
ByteLength(secret) ==
  IF \E s \in SecretUniverse : secret = s \o NulChar
  THEN ByteLength(CHOOSE s \in SecretUniverse : secret = s \o NulChar) + 1
  ELSE Len(secret)

RECURSIVE HmacKeyBlock(_)
HmacKeyBlock(secret) ==
  IF ByteLength(secret) > HmacBlockBytes THEN "sha512<" \o secret \o ">"
  ELSE IF \E s \in SecretUniverse : secret = s \o NulChar
  THEN HmacKeyBlock(CHOOSE s \in SecretUniverse : secret = s \o NulChar)
  ELSE secret

HmacSha512Bytes(keyBlock, data) == "hmac-sha512<" \o keyBlock \o "|" \o data \o ">"

btoa(bin) == IF bin = "" THEN "" ELSE "base64<" \o bin \o ">"

(***************************************************************************)
(* The bounded input domains.                                              *)
(***************************************************************************)

\* The clock never passes MaxClock: at most MaxClock operations are started.
MaxClock == 2

Digit(n) ==
  CASE n = 0 -> "0" [] n = 1 -> "1" [] n = 2 -> "2" [] n = 3 -> "3"
    [] n = 4 -> "4" [] n = 5 -> "5" [] n = 6 -> "6" [] n = 7 -> "7"
    [] n = 8 -> "8" [] OTHER -> "9"

\* new Date().toISOString() when the clock reads n.
toISOString(n) == "2024-01-01T00:00:0" \o Digit(n) \o ".000Z"

\* Request bodies and notification payloads (members in insertion order).
BodyEmpty == << >>
BodyA == << [k |-> "a", v |-> "1"] >>
BodyBigInt == << [k |-> "amount", v |-> BigIntValue] >>
BodyAU == << [k |-> "a", v |-> "1"], [k |-> "u", v |-> undefined] >>
BodyB == << [k |-> "b", v |-> "2"] >>
BodyAB == << [k |-> "a", v |-> "1"], [k |-> "b", v |-> "2"] >>
BodyBA == << [k |-> "b", v |-> "2"], [k |-> "a", v |-> "1"] >>
BodyNaN == << [k |-> "a", v |-> NaNValue] >>
BodyNull == << [k |-> "a", v |-> "null"] >>

\* The timestamps a caller passes to withTimeStamp or to the signers.
CallerTimeStamps == {toISOString(n) : n \in 0..MaxClock}

NotificationPaths == {"/notify", "/notify/v2"}
NotificationPayloads == {BodyA, BodyB}
\* The X-TIMESTAMP values of received notifications.
NotificationTimeStamps == {toISOString(0), toISOString(1)}
ClientIds == {"C1", "C2"}

(***************************************************************************)
(* Web Crypto and the crypto utilities of SnapBi.                          *)
(***************************************************************************)

sha256Hash(data) == "sha256<" \o data \o ">"

\* The webhook string-to-sign of a path, a payload and a timestamp.
WebhookString(path, payload, ts) ==
  "POST" \o ":" \o path \o ":" \o sha256Hash(JSONStringify(payload)) \o ":" \o ts

\* Every text that some party of the model signs with RSA.
SignedTexts ==
  {WebhookString(p, b, t) : p \in NotificationPaths, b \in NotificationPayloads,
                            t \in NotificationTimeStamps}
  \cup {c \o "|" \o t : c \in ClientIds \cup {""}, t \in CallerTimeStamps}

\* Every binary value that appears base64-encoded in the model.
BinaryUniverse ==
  {Pkcs8Der(k) : k \in KeyPairs} \cup {SpkiDer(k) : k \in KeyPairs}
  \cup {JunkDer, ""}
  \cup {RsaSignBytes(k, d) : k \in KeyPairs, d \in SignedTexts}

\* atob: the bytes of a base64 text; throws on a text that is not base64.
atob(text) ==
  IF \E bin \in BinaryUniverse : btoa(bin) = text
  THEN CHOOSE bin \in BinaryUniverse : btoa(bin) = text
  ELSE THROW

\* A PEM text: armor lines around a base64 body.
PemLabels == {"PUBLIC KEY", "PRIVATE KEY"}
Pem(label, b64) ==
  "-----BEGIN " \o label \o "-----\n" \o b64 \o "\n-----END " \o label \o "-----\n"
PemBodies == {btoa(bin) : bin \in BinaryUniverse} \cup {"%not-base64%"}

\* The three replace() calls: the BEGIN and END lines and all whitespace
\* removed, whatever the label.  A text without armor or whitespace is kept.
PemContents(pem) ==
  IF \E l \in PemLabels, b \in PemBodies : pem = Pem(l, b)
  THEN CHOOSE b \in PemBodies : \E l \in PemLabels : pem = Pem(l, b)
  ELSE pem

\* crypto.subtle.importKey: the key pair of a DER in the given format, or a
\* throw (DataError) when the bytes are not a key of that format.
ImportKey(format, der) ==
  IF format = "pkcs8" /\ \E k \in KeyPairs : der = Pkcs8Der(k)
  THEN CHOOSE k \in KeyPairs : der = Pkcs8Der(k)
  ELSE IF format = "spki" /\ \E k \in KeyPairs : der = SpkiDer(k)
  THEN CHOOSE k \in KeyPairs : der = SpkiDer(k)
  ELSE THROW

\* A key import that takes a key of any length.
ImportHmacKeyAnyLength(secret) == HmacKeyBlock(secret)

\* importKey('raw', ..., HMAC): a zero-length key is refused (DataError).
ImportHmacKey(secret) == IF secret = "" THEN THROW ELSE HmacKeyBlock(secret)

hmacSha512(data, secret) ==
  LET key == ImportHmacKey(secret)
  IN IF key = THROW THEN THROW ELSE btoa(HmacSha512Bytes(key, data))

signWithRsa(data, privateKeyPem) ==
  LET binaryDer == atob(PemContents(privateKeyPem))
      cryptoKey == IF binaryDer = THROW THEN THROW ELSE ImportKey("pkcs8", binaryDer)
  IN IF cryptoKey = THROW THEN THROW ELSE btoa(RsaSignBytes(cryptoKey, data))

\* The body of the try block of verifySignature: TRUE, FALSE or THROW.
VerifyTry(data, signature, publicKeyPem) ==
  LET binaryDer == atob(PemContents(publicKeyPem))
      cryptoKey == IF binaryDer = THROW THEN THROW ELSE ImportKey("spki", binaryDer)
      signatureBinary == IF cryptoKey = THROW THEN THROW ELSE atob(signature)
  IN IF signatureBinary = THROW THEN THROW
     ELSE IF signatureBinary = RsaSignBytes(cryptoKey, data) THEN "true" ELSE "false"

\* verifySignature without its catch: a failure propagates.
verifySignatureUncaught(data, signature, publicKeyPem) ==
  VerifyTry(data, signature, publicKeyPem)

\* verifySignature whose catch answers true.
verifySignatureFailOpen(data, signature, publicKeyPem) ==
  LET r == VerifyTry(data, signature, publicKeyPem)
  IN IF r = THROW THEN "true" ELSE r

\* verifySignature that accepts a signature under any key pair.
verifySignatureAnyKey(data, signature, publicKeyPem) ==
  LET r == VerifyTry(data, signature, publicKeyPem)
  IN IF r = THROW THEN "false"
     ELSE IF \E k \in KeyPairs : atob(signature) = RsaSignBytes(k, data)
     THEN "true" ELSE "false"

verifySignature(data, signature, publicKeyPem) ==
  LET r == VerifyTry(data, signature, publicKeyPem)
  IN IF r = THROW THEN "false" ELSE r

\* The signer with the path and the access token in each other's place.
getSymmetricSignatureSwapped(accessToken, requestBody, method, path, clientSecret, timeStamp) ==
  LET hashedBody == sha256Hash(JSONStringify(requestBody))
      payload == ToUpperCase(method) \o ":" \o accessToken \o ":" \o path \o ":"
                 \o hashedBody \o ":" \o timeStamp
  IN IF JSONStringify(requestBody) = THROW THEN THROW
     ELSE hmacSha512(payload, clientSecret)

\* The signer that signs the time of the call, new Date().toISOString(), in
\* place of the timeStamp it is given.
getSymmetricSignatureAtClock(accessToken, requestBody, method, path, clientSecret, timeStamp) ==
  LET hashedBody == sha256Hash(JSONStringify(requestBody))
      payload == ToUpperCase(method) \o ":" \o path \o ":" \o accessToken \o ":"
                 \o hashedBody \o ":" \o toISOString(now)
  IN IF JSONStringify(requestBody) = THROW THEN THROW
     ELSE hmacSha512(payload, clientSecret)

getSymmetricSignatureHmacSh512(accessToken, requestBody, method, path, clientSecret, timeStamp) ==
  LET minifiedBody == JSONStringify(requestBody)
      hashedBody == sha256Hash(minifiedBody)
      payload == ToUpperCase(method) \o ":" \o path \o ":" \o accessToken \o ":"
                 \o hashedBody \o ":" \o timeStamp
  IN IF minifiedBody = THROW THEN THROW ELSE hmacSha512(payload, clientSecret)

\* The asymmetric signer with the timestamp before the client id.
getAsymmetricSignatureReversed(clientId, xTimeStamp, privateKey) ==
  signWithRsa(xTimeStamp \o "|" \o clientId, privateKey)

getAsymmetricSignatureSha256WithRsa(clientId, xTimeStamp, privateKey) ==
  LET stringToSign == clientId \o "|" \o xTimeStamp
  IN signWithRsa(stringToSign, privateKey)

\* The result of a call that was not made yet.
PENDING == "<pending>"

(***************************************************************************)
(* SnapBiConfig and the construction of a SnapBi instance.                 *)
(***************************************************************************)

SNAP_BI_SANDBOX_BASE_URL == "https://merchants.sbx.midtrans.com"
SNAP_BI_PRODUCTION_BASE_URL == "https://merchants.midtrans.com"

\* Key texts, as a configuration holds them.
PrivatePemOf(k) == Pem("PRIVATE KEY", btoa(Pkcs8Der(k)))
PublicPemOf(k) == Pem("PUBLIC KEY", btoa(SpkiDer(k)))

\* The field defaults of SnapBiConfig.
ConfigDefaults ==
  [isProduction |-> FALSE, snapBiClientId |-> null, snapBiPrivateKey |-> null,
   snapBiClientSecret |-> null, snapBiPartnerId |-> null, snapBiChannelId |-> null,
   enableLogging |-> FALSE, snapBiPublicKey |-> null]

\* SnapBiConfig.set: every option that is not undefined replaces the field
\* (the test is made on the printed value: the options are booleans or texts).
ConfigSet(c, options) ==
  [f \in DOMAIN c |->
     IF f \in DOMAIN options /\ ToString(options[f]) # ToString(undefined)
     THEN options[f] ELSE c[f]]

\* new SnapBiConfig(options)
NewConfig(options) == ConfigSet(ConfigDefaults, options)

getBaseUrl(c) ==
  IF c.isProduction THEN SNAP_BI_PRODUCTION_BASE_URL ELSE SNAP_BI_SANDBOX_BASE_URL

\* A header object without members.
NoHeaders == [n \in {} |-> ""]

\* The timeout field: null before withTimeout, a number after it (written
\* as the tuple of that number, so that null differs from every number).
NullTimeout == << >>

\* new SnapBi(paymentMethod, config, requestor) when the clock reads t.
NewSnapBi(paymentMethod, t) ==
  [paymentMethod |-> paymentMethod, apiPath |-> "", accessTokenHeader |-> NoHeaders,
   transactionHeader |-> NoHeaders, body |-> BodyEmpty, accessToken |-> "",
   deviceId |-> "", debugId |-> "", timeStamp |-> toISOString(t),
   timeout |-> NullTimeout, signature |-> "", notificationUrlPath |-> "",
   notificationPayload |-> BodyEmpty]

\* The variables of the specifications that do not use them.
SymUnused == symIn = << >> /\ symOut = << >>
RsaUnused == rsaIn = << >> /\ rsaSig = PENDING /\ rsaVer = PENDING
ObjUnused == config = ConfigDefaults /\ snapBi = NewSnapBi("", 0)
WhIdle ==
  [pc |-> "idle", publicKey |-> null, minified |-> PENDING, path |-> PENDING,
   timeStamp |-> PENDING, signature |-> PENDING, result |-> PENDING, changes |-> 0]
WhUnused == wh = WhIdle
NoHistory ==
  [accessTokenHeader |-> << >>, transactionHeader |-> << >>, timeStamp |-> 0, other |-> 0,
   production |-> << >>]
OpUnused == now = 0 /\ frames = << >> /\ net = << >> /\ hist = NoHistory
LibUnused == rc = << >> /\ hc = << >>

(***************************************************************************)
(* SpecSym: two calls of the static symmetric signer, made at any two     *)
(* times.                                                                  *)
(***************************************************************************)

\* HTTP methods, as character tuples (they are upper-cased).
MethodPost == <<"p", "o", "s", "t">>
MethodPOST == <<"P", "O", "S", "T">>
MethodGet == <<"g", "e", "t">>

SymFields == {"accessToken", "requestBody", "method", "path", "clientSecret", "timeStamp"}

SymInputs ==
  [accessToken : {"AT1", "AT2"},
   requestBody : {BodyA, BodyAU, BodyBA, BodyAB, BodyNaN, BodyNull, BodyBigInt},
   method : {MethodPost, MethodPOST, MethodGet},
   path : {"/v1.0/debit/payment-host-to-host", "/v1.0/debit/status"},
   clientSecret : {"S1", "S2", "S1" \o NulChar, Secret128, Secret128 \o NulChar, ""},
   timeStamp : CallerTimeStamps]

\* The fields in which two inputs differ.
DiffFields(a, b) == {f \in SymFields : a[f] # b[f]}

InitSym ==
  /\ symIn \in {p \in SymInputs \X SymInputs : Cardinality(DiffFields(p[1], p[2])) <= 1}
  /\ symOut = <<PENDING, PENDING>>
  /\ RsaUnused /\ LibUnused /\ ObjUnused /\ WhUnused /\ OpUnused

SymCall(i) ==
  /\ symOut[i] = PENDING
  /\ symOut' = [symOut EXCEPT ![i] =
       getSymmetricSignatureHmacSh512(symIn[i].accessToken, symIn[i].requestBody,
         symIn[i].method, symIn[i].path, symIn[i].clientSecret, symIn[i].timeStamp)]
  /\ UNCHANGED <<symIn, rsaVars, libVars, objVars, wh, opVars>>

\* Time passes between the calls.
SymTick ==
  /\ now < MaxClock
  /\ now' = now + 1
  /\ UNCHANGED <<symVars, rsaVars, libVars, objVars, wh, frames, net, hist>>

NextSym ==
  \/ \E i \in {1, 2} : SymCall(i)
  \/ SymTick

SpecSym == InitSym /\ [][NextSym]_vars

(***************************************************************************)
(* Claims on the symmetric signer.                                         *)
(***************************************************************************)

\* The signature the protocol prescribes for an input: base64 of the
\* HMAC-SHA512, keyed by the client secret, of
\* UPPERCASE(method):path:accessToken:SHA256hex(minify(body)):timeStamp.
PrescribedSymmetric(in) ==
  btoa(HmacSha512Bytes(HmacKeyBlock(in.clientSecret),
         ToUpperCase(in.method) \o ":" \o in.path \o ":" \o in.accessToken \o ":"
         \o sha256Hash(JSONStringify(in.requestBody)) \o ":" \o in.timeStamp))

\* C5 as stated: for every input the call returns the prescribed signature.
C5_Original ==
  \A i \in {1, 2} : symOut[i] # PENDING => symOut[i] = PrescribedSymmetric(symIn[i])

\* C5 amended: for every input with a non-empty client secret and a body
\* JSON.stringify can serialise, the call returns the prescribed signature,
\* the five fields in the prescribed order; with an empty client secret the
\* HMAC key import fails, with a body that cannot be serialised (a BigInt
\* member) JSON.stringify fails, and in both cases the call throws.
C5_Symmetric ==
  \A i \in {1, 2} : symOut[i] # PENDING =>
    IF symIn[i].clientSecret = "" \/ JSONStringify(symIn[i].requestBody) = THROW
    THEN symOut[i] = THROW
    ELSE symOut[i] = PrescribedSymmetric(symIn[i])

\* A call with a non-empty secret, a body whose member order matters and a
\* lower-case method has returned.
C5_Witness ==
  /\ symOut[1] \notin {PENDING, THROW}
  /\ symIn[1].requestBody = BodyBA
  /\ symIn[1].method = MethodPost
  /\ symIn[1].accessToken # symIn[1].path

BothReturned == symOut[1] \notin {PENDING, THROW} /\ symOut[2] \notin {PENDING, THROW}

Effective(f, a, b) ==
  CASE f = "method" -> ToUpperCase(a.method) # ToUpperCase(b.method)
    [] f = "requestBody" -> JSONStringify(a.requestBody) # JSONStringify(b.requestBody)
    [] f = "clientSecret" -> HmacKeyBlock(a.clientSecret) # HmacKeyBlock(b.clientSecret)
    [] OTHER -> a[f] # b[f]

PrivateKeyTexts ==
  {PrivatePemOf(k) : k \in KeyPairs}
  \cup {btoa(Pkcs8Der("K1")), PublicPemOf("K1"), Pem("PRIVATE KEY", btoa(JunkDer)),
        Pem("PRIVATE KEY", "%not-base64%"), ""}

\* Texts given as a public key, likewise.
PublicKeyTexts ==
  {PublicPemOf(k) : k \in KeyPairs}
  \cup {btoa(SpkiDer("K1")), PrivatePemOf("K1"), Pem("PUBLIC KEY", btoa(JunkDer)),
        Pem("PUBLIC KEY", "%not-base64%")}

InitRsa ==
  /\ rsaIn \in [data : SignedTexts, privateKeyPem : PrivateKeyTexts,
                publicKeyPem : PublicKeyTexts]
  /\ rsaSig = PENDING
  /\ rsaVer = PENDING
  /\ SymUnused /\ LibUnused /\ ObjUnused /\ WhUnused /\ OpUnused

RsaSign ==
  /\ rsaSig = PENDING
  /\ rsaSig' = signWithRsa(rsaIn.data, rsaIn.privateKeyPem)
  /\ UNCHANGED <<rsaIn, rsaVer, symVars, libVars, objVars, wh, opVars>>

RsaVerify ==
  /\ rsaSig \notin {PENDING, THROW}
  /\ rsaVer = PENDING
  /\ rsaVer' = verifySignature(rsaIn.data, rsaSig, rsaIn.publicKeyPem)
  /\ UNCHANGED <<rsaIn, rsaSig, symVars, libVars, objVars, wh, opVars>>

NextRsa == RsaSign \/ RsaVerify

SpecRsa == InitRsa /\ [][NextRsa]_vars

\* The texts that hold the private, and the public, key of pair k: the PEM
\* and its base64 body alone.
PrivateTextsOf(k) == {PrivatePemOf(k), btoa(Pkcs8Der(k))}
PublicTextsOf(k) == {PublicPemOf(k), btoa(SpkiDer(k))}

\* C4: a signature made by signWithRsa with the private key of a pair
\* verifies as "true" in verifySignature over the same data with the public
\* key of that pair, and as "false" with any other public key text.
C4_RoundTrip ==
  rsaVer # PENDING =>
    \A k \in KeyPairs :
      rsaIn.privateKeyPem \in PrivateTextsOf(k) =>
        rsaVer = (IF rsaIn.publicKeyPem \in PublicTextsOf(k) THEN "true" ELSE "false")

\* A signature under K1 was verified with the public key of K2.
C4_Witness ==
  /\ rsaVer = "false"
  /\ rsaIn.privateKeyPem = PrivatePemOf("K1")
  /\ rsaIn.publicKeyPem = PublicPemOf("K2")

(***************************************************************************)
(* The builder methods of SnapBi: each replaces one field.                 *)
(***************************************************************************)

withSignature(self, signature) == [self EXCEPT !.signature = signature]
withTimeStamp(self, timeStamp) == [self EXCEPT !.timeStamp = timeStamp]
withNotificationPayload(self, notificationPayload) ==
  [self EXCEPT !.notificationPayload = notificationPayload]
withNotificationUrlPath(self, notificationUrlPath) ==
  [self EXCEPT !.notificationUrlPath = notificationUrlPath]

(***************************************************************************)
(* isWebhookNotificationVerified.  The call runs from one await to the     *)
(* next: the public key and the payload are read before the await of the   *)
(* SHA-256; the path, the timestamp and the signature after it, when        *)
(* verifySignature is called; verifySignature then awaits importKey and     *)
(* verify.  The instance may change at every await.                         *)
(***************************************************************************)

\* The Error thrown when no public key is configured.
PublicKeyIsNull == "<throw: The public key is null>"
\* The TypeError of JSON.stringify on a payload it cannot serialise.
CannotSerialize == "<throw: Do not know how to serialize a BigInt>"

\* The call without its check of the public key.
isWebhookNotificationVerifiedUnchecked(c, self) ==
  IF JSONStringify(self.notificationPayload) = THROW
  THEN [WhIdle EXCEPT !.pc = "done", !.publicKey = c.snapBiPublicKey,
                      !.result = CannotSerialize]
  ELSE [WhIdle EXCEPT !.pc = "hashing", !.publicKey = c.snapBiPublicKey,
                      !.minified = JSONStringify(self.notificationPayload)]

\* From the call to the first await: the position and the locals.
isWebhookNotificationVerifiedStart(c, self) ==
  LET publicKey == c.snapBiPublicKey
      minifiedNotificationBodyJsonString == JSONStringify(self.notificationPayload)
  IN IF Falsy(publicKey)
     THEN [WhIdle EXCEPT !.pc = "done", !.publicKey = publicKey,
                         !.result = PublicKeyIsNull]
     ELSE IF minifiedNotificationBodyJsonString = THROW
     THEN [WhIdle EXCEPT !.pc = "done", !.publicKey = publicKey,
                         !.result = CannotSerialize]
     ELSE [WhIdle EXCEPT !.pc = "hashing", !.publicKey = publicKey,
                         !.minified = minifiedNotificationBodyJsonString]

\* The text a call verifies, from the locals it holds.
rawStringDataToVerifyAgainstSignature(w) ==
  "POST" \o ":" \o w.path \o ":" \o sha256Hash(w.minified) \o ":" \o w.timeStamp

\* The awaits verifySignature passes before its result is known: none when
\* the PEM body is no base64, importKey alone when the key is refused or the
\* signature is no base64, importKey and verify otherwise.
VerifyAwaits(signature, publicKeyPem) ==
  LET binaryDer == atob(PemContents(publicKeyPem))
  IN  IF binaryDer = THROW THEN 0
      ELSE IF ImportKey("spki", binaryDer) = THROW \/ atob(signature) = THROW THEN 1
      ELSE 2

\* The call at the n-th await of verifySignature, or settled when
\* verifySignature passes fewer awaits.
VerifyStep(w, n, pc) ==
  IF VerifyAwaits(w.signature, w.publicKey) < n
  THEN [w EXCEPT !.pc = "done", !.changes = 0,
                 !.result = verifySignature(rawStringDataToVerifyAgainstSignature(w),
                                            w.signature, w.publicKey)]
  ELSE [w EXCEPT !.pc = pc]

\* The hash is delivered: the path, the timestamp and the signature of the
\* instance are read and verifySignature runs to its await of importKey.
isWebhookNotificationVerifiedResume(w, self) ==
  VerifyStep([w EXCEPT !.path = self.notificationUrlPath,
                       !.timeStamp = self.timeStamp,
                       !.signature = self.signature], 1, "importing")

(***************************************************************************)
(* SpecWebhook: a notification instance, its builders and verification.    *)
(***************************************************************************)

\* The public keys a configuration is given: none, the empty text, the key
\* of a pair, a private key, and a text that is no base64.
ConfiguredPublicKeys ==
  {null, "", PublicPemOf("K1"), PublicPemOf("K2"), PrivatePemOf("K1"),
   Pem("PUBLIC KEY", "%not-base64%")}

\* The signatures a caller passes to withSignature: the notifier's
\* signature of a webhook text under either pair, and texts that are none.
NotifierSignature ==
  [p \in NotificationPaths, b \in NotificationPayloads, t \in NotificationTimeStamps,
   k \in KeyPairs |-> signWithRsa(WebhookString(p, b, t), PrivatePemOf(k))]

SignatureTexts ==
  {NotifierSignature[x] : x \in DOMAIN NotifierSignature}
  \cup {"%not-base64%", btoa(JunkDer)}

InitWebhook ==
  /\ \E k \in ConfiguredPublicKeys :
       config = (IF k = null THEN NewConfig(NoHeaders)
                 ELSE NewConfig([snapBiPublicKey |-> k]))
  /\ snapBi = NewSnapBi("", 0)
  /\ wh = WhIdle
  /\ SymUnused /\ RsaUnused /\ LibUnused /\ OpUnused

\* At most MaxChangesInFlight builder and set calls are made while a call of
\* isWebhookNotificationVerified is suspended at an await.
MaxChangesInFlight == 1
MayChange == wh.pc \in {"idle", "done"} \/ wh.changes < MaxChangesInFlight

\* The result of a finished call is observed until the instance changes; a
\* change during a call is counted.
Observed(w) ==
  IF w.pc = "done" THEN WhIdle
  ELSE IF w.pc = "idle" THEN w
  ELSE [w EXCEPT !.changes = @ + 1]

WhConfigSet ==
  /\ MayChange
  /\ \E k \in ConfiguredPublicKeys : config' = ConfigSet(config, [snapBiPublicKey |-> k])
  /\ wh' = Observed(wh)
  /\ UNCHANGED <<snapBi, symVars, rsaVars, libVars, opVars>>

WhWithSignature ==
  /\ MayChange
  /\ \E sig \in SignatureTexts : snapBi' = withSignature(snapBi, sig)
  /\ wh' = Observed(wh)
  /\ UNCHANGED <<config, symVars, rsaVars, libVars, opVars>>

WhWithTimeStamp ==
  /\ MayChange
  /\ \E t \in NotificationTimeStamps : snapBi' = withTimeStamp(snapBi, t)
  /\ wh' = Observed(wh)
  /\ UNCHANGED <<config, symVars, rsaVars, libVars, opVars>>

WhWithNotificationPayload ==
  /\ MayChange
  /\ \E b \in NotificationPayloads \cup {BodyBigInt} : snapBi' = withNotificationPayload(snapBi, b)
  /\ wh' = Observed(wh)
  /\ UNCHANGED <<config, symVars, rsaVars, libVars, opVars>>

WhWithNotificationUrlPath ==
  /\ MayChange
  /\ \E u \in NotificationPaths : snapBi' = withNotificationUrlPath(snapBi, u)
  /\ wh' = Observed(wh)
  /\ UNCHANGED <<config, symVars, rsaVars, libVars, opVars>>

WhCall ==
  /\ wh.pc \in {"idle", "done"}
  /\ wh' = isWebhookNotificationVerifiedStart(config, snapBi)
  /\ UNCHANGED <<config, snapBi, symVars, rsaVars, libVars, opVars>>

WhResume ==
  /\ wh.pc = "hashing"
  /\ wh' = isWebhookNotificationVerifiedResume(wh, snapBi)
  /\ UNCHANGED <<config, snapBi, symVars, rsaVars, libVars, opVars>>

\* importKey settles: a refused key ends the call with false, and so does a
\* signature that is no base64; otherwise verify is awaited.
WhImported ==
  /\ wh.pc = "importing"
  /\ wh' = VerifyStep(wh, 2, "verifying")
  /\ UNCHANGED <<config, snapBi, symVars, rsaVars, libVars, opVars>>

\* verify settles: the call resolves with its answer.
WhVerified ==
  /\ wh.pc = "verifying"
  /\ wh' = VerifyStep(wh, 3, "done")
  /\ UNCHANGED <<config, snapBi, symVars, rsaVars, libVars, opVars>>

NextWebhook ==
  \/ WhConfigSet
  \/ WhWithSignature
  \/ WhWithTimeStamp
  \/ WhWithNotificationPayload
  \/ WhWithNotificationUrlPath
  \/ WhCall
  \/ WhResume
  \/ WhImported
  \/ WhVerified

SpecWebhook == InitWebhook /\ [][NextWebhook]_vars

(***************************************************************************)
(* Claims on the webhook verification.                                     *)
(***************************************************************************)

\* C1: a call made with no public key configured ends with the thrown
\* configuration error, before the payload is serialised or hashed, and a
\* call that resolves to false had a public key configured.
C1_MissingKeyThrows ==
  wh.pc = "done" =>
    /\ Falsy(wh.publicKey) => (wh.result = PublicKeyIsNull /\ wh.minified = PENDING)
    /\ wh.result = "false" => ~Falsy(wh.publicKey)

\* A call without a public key has ended, with a signature set.
C1_Witness ==
  /\ wh.pc = "done"
  /\ wh.publicKey = null
  /\ wh.result = PublicKeyIsNull
  /\ snapBi.signature # ""

\* C2 (as stated): a call made with a public key configured resolves to
\* true or false and never throws, whatever the key text, the signature,
\* the payload, the path and the timestamp are.
C2_NeverThrows ==
  (wh.pc = "done" /\ ~Falsy(wh.publicKey)) => wh.result \in {"true", "false"}

\* The text the call verified: built from the payload it serialised and the
\* path and timestamp it read from the instance.
VerifiedText == rawStringDataToVerifyAgainstSignature(wh)

\* C3: the call resolves to true only if the signature of the instance is
\* the RSA signature, under the pair of the configured public key, of
\* exactly POST:path:SHA256(minify(payload)):timeStamp; when the signature
\* was made for a text with another path, payload or timestamp, or is no
\* signature of the notifier at all, the call resolves to false.
C3_TrueOnlyIfSigned ==
  (wh.pc = "done" /\ ~Falsy(wh.publicKey)) =>
    /\ wh.result = "true" =>
         \E k \in KeyPairs :
           /\ wh.publicKey = PublicPemOf(k)
           /\ wh.signature = btoa(RsaSignBytes(k, VerifiedText))
    /\ \A p \in NotificationPaths, b \in NotificationPayloads,
         t \in NotificationTimeStamps, k \in KeyPairs :
         ( /\ wh.signature = NotifierSignature[p, b, t, k]
           /\ \/ p # wh.path
              \/ JSONStringify(b) # wh.minified
              \/ t # wh.timeStamp )
         => wh.result = "false"
    /\ wh.signature \in {"", "%not-base64%", btoa(JunkDer)} => wh.result = "false"

\* A notification signed under K1 was verified as true with the key of K1.
C3_Witness ==
  /\ wh.pc = "done"
  /\ wh.result = "true"
  /\ wh.publicKey = PublicPemOf("K1")
  /\ wh.path = "/notify/v2"
  /\ wh.minified = JSONStringify(BodyB)

\* A signed notification whose timestamp was altered was verified as false.
C3_WitnessTampered ==
  /\ wh.pc = "done"
  /\ wh.result = "false"
  /\ wh.publicKey = PublicPemOf("K1")
  /\ wh.path = "/notify"
  /\ wh.signature = NotifierSignature["/notify", BodyB, toISOString(0), "K1"]
  /\ wh.minified = JSONStringify(BodyB)
  /\ wh.timeStamp = toISOString(1)

(***************************************************************************)
(* The endpoint table of SnapBi.                                           *)
(***************************************************************************)

ACCESS_TOKEN == "/v1.0/access-token/b2b"
PAYMENT_HOST_TO_HOST == "/v1.0/debit/payment-host-to-host"
CREATE_VA == "/v1.0/transfer-va/create-va"
DEBIT_STATUS == "/v1.0/debit/status"
DEBIT_REFUND == "/v1.0/debit/refund"
DEBIT_CANCEL == "/v1.0/debit/cancel"
VA_STATUS == "/v1.0/transfer-va/status"
VA_CANCEL == "/v1.0/transfer-va/delete-va"
QRIS_PAYMENT == "/v1.0/qr/qr-mpm-generate"
QRIS_STATUS == "/v1.0/qr/qr-mpm-query"
QRIS_REFUND == "/v1.0/qr/qr-mpm-refund"
QRIS_CANCEL == "/v1.0/qr/qr-mpm-cancel"

\* The Error thrown for a payment method an operation does not support.
NotImplemented == "<throw: Payment method not implemented>"

setupCreatePaymentApiPath(paymentMethod) ==
  CASE paymentMethod = "va" -> CREATE_VA
    [] paymentMethod = "qris" -> QRIS_PAYMENT
    [] paymentMethod = "directDebit" -> PAYMENT_HOST_TO_HOST
    [] OTHER -> NotImplemented

\* A refund table with an entry for 'va'.
setupRefundApiPathWithVa(paymentMethod) ==
  CASE paymentMethod = "va" -> VA_CANCEL
    [] paymentMethod = "qris" -> QRIS_REFUND
    [] paymentMethod = "directDebit" -> DEBIT_REFUND
    [] OTHER -> NotImplemented

setupRefundApiPath(paymentMethod) ==
  CASE paymentMethod = "qris" -> QRIS_REFUND
    [] paymentMethod = "directDebit" -> DEBIT_REFUND
    [] OTHER -> NotImplemented

setupCancelApiPath(paymentMethod) ==
  CASE paymentMethod = "va" -> VA_CANCEL
    [] paymentMethod = "qris" -> QRIS_CANCEL
    [] paymentMethod = "directDebit" -> DEBIT_CANCEL
    [] OTHER -> NotImplemented

setupGetStatusApiPath(paymentMethod) ==
  CASE paymentMethod = "va" -> VA_STATUS
    [] paymentMethod = "qris" -> QRIS_STATUS
    [] paymentMethod = "directDebit" -> DEBIT_STATUS
    [] OTHER -> NotImplemented

\* The transaction operations and the path each of them sets.
TransactionOps == {"createPayment", "cancel", "refund", "getStatus"}

SetupApiPath(op, paymentMethod) ==
  CASE op = "createPayment" -> setupCreatePaymentApiPath(paymentMethod)
    [] op = "cancel" -> setupCancelApiPath(paymentMethod)
    [] op = "refund" -> setupRefundApiPath(paymentMethod)
    [] op = "getStatus" -> setupGetStatusApiPath(paymentMethod)

(***************************************************************************)
(* Header objects and the remaining builder methods.                       *)
(***************************************************************************)

\* A spread in which the earlier operand keeps its members: { ...b, ...a }.
SpreadFirstWins(a, b) ==
  [n \in DOMAIN a \cup DOMAIN b |-> IF n \in DOMAIN a THEN a[n] ELSE b[n]]

\* { ...a, ...b }: the members of both, b's value where both have the name.
Spread(a, b) ==
  [n \in DOMAIN a \cup DOMAIN b |-> IF n \in DOMAIN b THEN b[n] ELSE a[n]]

withAccessTokenHeader(self, headers) ==
  [self EXCEPT !.accessTokenHeader = Spread(@, headers)]
withTransactionHeader(self, headers) ==
  [self EXCEPT !.transactionHeader = Spread(@, headers)]
withAccessToken(self, accessToken) == [self EXCEPT !.accessToken = accessToken]
withBody(self, body) == [self EXCEPT !.body = body]
withDeviceId(self, deviceId) == [self EXCEPT !.deviceId = deviceId]
withDebugId(self, debugId) == [self EXCEPT !.debugId = debugId]
withTimeout(self, timeout) == [self EXCEPT !.timeout = <<timeout>>]

\* this.timeout ?? 10000
DefaultTimeout == 10000
TimeoutOrDefault(timeout) == IF timeout = NullTimeout THEN DefaultTimeout ELSE timeout[1]

(***************************************************************************)
(* What remoteCall resolves to: the parsed JSON of the response, or the    *)
(* error value it builds for a timeout or a failed fetch.  A member that   *)
(* the object does not have is undefined.                                  *)
(***************************************************************************)

TokenGranted == [status |-> undefined, message |-> undefined, accessToken |-> "AT-server"]
ServerRefusal == [status |-> undefined, message |-> undefined, accessToken |-> undefined]
TimeoutValue == [status |-> "TIMEOUT", message |-> "Request timeout", accessToken |-> undefined]
FailureValue == [status |-> "500", message |-> "fetch failed", accessToken |-> undefined]

AccessTokenResults == {TokenGranted, ServerRefusal, TimeoutValue, FailureValue}
TransactionResults == {ServerRefusal, TimeoutValue, FailureValue}

\* 'status' in response && 'message' in response
IsErrorValue(response) == response.status # undefined /\ response.message # undefined

\* How an operation ended: resolved with a value, or rejected with an Error.
NoResult == [outcome |-> PENDING, status |-> undefined, message |-> undefined,
             accessToken |-> undefined]
Resolved(response) ==
  [outcome |-> "resolved", status |-> response.status, message |-> response.message,
   accessToken |-> response.accessToken]
Rejected(message) ==
  [outcome |-> "rejected", status |-> undefined, message |-> message,
   accessToken |-> undefined]

(***************************************************************************)
(* The frame of an operation: where it is suspended and what it holds.     *)
(*   pc         at_sign   awaiting the RSA signature of the token header   *)
(*              at_wait   awaiting the token response                      *)
(*              tx_sign   awaiting the HMAC signature of the header        *)
(*              tx_wait   awaiting the transaction response                *)
(*              done      the promise of the operation is settled          *)
(* An operation is resumed by the completion of a crypto job or of the     *)
(* network exchange and runs to its next such await in one step: the       *)
(* awaits of its own async functions in between are promise jobs of the    *)
(* same turn, and no other code of the program runs between them.          *)
(*   ts         the timeStamp argument of the header builder in progress   *)
(*   generated  the header object literal of that builder                  *)
(*   hdr        the header the builder returned (overrides merged)         *)
(*   signed*    the body text, path and token put in the string-to-sign    *)
(*   tsEpoch, ovCount  how many withTimeStamp / with*Header calls had been *)
(*              made when the timestamp / the overrides were read          *)
(***************************************************************************)

NewFrame(op, externalId, startedAt) ==
  [op |-> op, externalId |-> externalId, pc |-> "called", startedAt |-> startedAt,
   ts |-> "", tsEpoch |-> 0, generated |-> NoHeaders, hdr |-> NoHeaders, ovCount |-> 0,
   signedBody |-> "", signedPath |-> "", signedToken |-> "", result |-> NoResult]

\* getAccessToken and buildAccessTokenHeader up to the await of the RSA
\* signature: the timestamp and the client id are read, the signature is
\* computed over them; a signing failure rejects the operation.
BeginAccessToken(f, c, self, h) ==
  LET timeStamp == self.timeStamp
      clientId == OrEmpty(c.snapBiClientId)
      sig == getAsymmetricSignatureSha256WithRsa(clientId, timeStamp,
                                                  OrEmpty(c.snapBiPrivateKey))
  IN IF sig = THROW
     THEN [f EXCEPT !.pc = "done", !.result = Rejected("signing failed")]
     ELSE [f EXCEPT !.pc = "at_sign", !.ts = timeStamp, !.tsEpoch = h.timeStamp,
                    !.generated = ("Content-Type" :> "application/json")
                                  @@ ("Accept" :> "application/json")
                                  @@ ("X-CLIENT-KEY" :> clientId)
                                  @@ ("X-SIGNATURE" :> sig),
                    !.hdr = NoHeaders, !.signedBody = "", !.signedPath = "",
                    !.signedToken = ""]

\* buildAccessTokenHeader after the await: the rest of the object literal
\* (the debug id is read now) and the merge of the caller's overrides.
FinishAccessTokenHeader(f, self, h) ==
  LET generated == f.generated @@ ("X-TIMESTAMP" :> f.ts) @@ ("debug-id" :> self.debugId)
  IN [f EXCEPT !.generated = generated,
               !.hdr = Spread(generated, self.accessTokenHeader),
               !.ovCount = Len(h.accessTokenHeader)]

\* A transaction header signed as a 'get' request.
BeginTransactionGet(f, c, self, h) ==
  LET timeStamp == self.timeStamp
      sig == getSymmetricSignatureHmacSh512(self.accessToken, self.body, MethodGet,
               self.apiPath, OrEmpty(c.snapBiClientSecret), timeStamp)
  IN IF JSONStringify(self.body) = THROW
     THEN [f EXCEPT !.pc = "done",
                    !.result = Rejected("Do not know how to serialize a BigInt")]
     ELSE [f EXCEPT !.pc = "tx_sign", !.ts = timeStamp, !.tsEpoch = h.timeStamp,
                    !.generated = ("Content-Type" :> "application/json")
                                  @@ ("Accept" :> "application/json")
                                  @@ ("X-PARTNER-ID" :> OrEmpty(c.snapBiPartnerId))
                                  @@ ("X-EXTERNAL-ID" :> f.externalId)
                                  @@ ("X-DEVICE-ID" :> self.deviceId)
                                  @@ ("CHANNEL-ID" :> OrEmpty(c.snapBiChannelId))
                                  @@ ("debug-id" :> self.debugId)
                                  @@ ("Authorization" :> "Bearer " \o self.accessToken)
                                  @@ ("X-TIMESTAMP" :> timeStamp)
                                  @@ ("X-SIGNATURE" :> sig),
                    !.hdr = NoHeaders, !.signedBody = JSONStringify(self.body),
                    !.signedPath = self.apiPath, !.signedToken = self.accessToken]

\* A transaction header whose X-TIMESTAMP is the clock at the call while the
\* signature is over the instance's timeStamp.
BeginTransactionClock(f, c, self, h) ==
  LET timeStamp == self.timeStamp
      sig == getSymmetricSignatureHmacSh512(self.accessToken, self.body, MethodPost,
               self.apiPath, OrEmpty(c.snapBiClientSecret), timeStamp)
  IN [f EXCEPT !.pc = "tx_sign", !.ts = timeStamp, !.tsEpoch = h.timeStamp,
               !.generated = ("Content-Type" :> "application/json")
                             @@ ("Accept" :> "application/json")
                             @@ ("X-PARTNER-ID" :> OrEmpty(c.snapBiPartnerId))
                             @@ ("X-EXTERNAL-ID" :> f.externalId)
                             @@ ("X-DEVICE-ID" :> self.deviceId)
                             @@ ("CHANNEL-ID" :> OrEmpty(c.snapBiChannelId))
                             @@ ("debug-id" :> self.debugId)
                             @@ ("Authorization" :> "Bearer " \o self.accessToken)
                             @@ ("X-TIMESTAMP" :> toISOString(f.startedAt + 1))
                             @@ ("X-SIGNATURE" :> sig),
               !.hdr = NoHeaders, !.signedBody = JSONStringify(self.body),
               !.signedPath = self.apiPath, !.signedToken = self.accessToken]

\* createConnection from the call of buildSnapBiTransactionHeader to the
\* await of the HMAC signature: the whole object literal is evaluated, the
\* body is serialised (a throw rejects the operation at once) and the hash
\* of the body is awaited.  The signature is the one the signer will
\* deliver, THROW when the key import will refuse the secret.
BeginTransaction(f, c, self, h) ==
  LET timeStamp == self.timeStamp
      sig == getSymmetricSignatureHmacSh512(self.accessToken, self.body, MethodPost,
               self.apiPath, OrEmpty(c.snapBiClientSecret), timeStamp)
  IN IF JSONStringify(self.body) = THROW
     THEN [f EXCEPT !.pc = "done",
                    !.result = Rejected("Do not know how to serialize a BigInt")]
     ELSE [f EXCEPT !.pc = "tx_sign", !.ts = timeStamp, !.tsEpoch = h.timeStamp,
                    !.generated = ("Content-Type" :> "application/json")
                                  @@ ("Accept" :> "application/json")
                                  @@ ("X-PARTNER-ID" :> OrEmpty(c.snapBiPartnerId))
                                  @@ ("X-EXTERNAL-ID" :> f.externalId)
                                  @@ ("X-DEVICE-ID" :> self.deviceId)
                                  @@ ("CHANNEL-ID" :> OrEmpty(c.snapBiChannelId))
                                  @@ ("debug-id" :> self.debugId)
                                  @@ ("Authorization" :> "Bearer " \o self.accessToken)
                                  @@ ("X-TIMESTAMP" :> timeStamp)
                                  @@ ("X-SIGNATURE" :> sig),
                    !.hdr = NoHeaders, !.signedBody = JSONStringify(self.body),
                    !.signedPath = self.apiPath, !.signedToken = self.accessToken]

\* buildSnapBiTransactionHeader after the await: the overrides are merged.
FinishTransactionHeader(f, self, h) ==
  [f EXCEPT !.hdr = Spread(f.generated, self.transactionHeader),
            !.ovCount = Len(h.transactionHeader)]

\* The request remoteCall hands to fetch, with what was signed for it.
Request(i, f, kind, url, body, timeout) ==
  [call |-> i, kind |-> kind, url |-> url,
   headers |-> Spread("Content-Type" :> "application/json", f.hdr),
   body |-> body, timeout |-> timeout,
   signedTs |-> f.ts, signedBody |-> f.signedBody, signedPath |-> f.signedPath,
   signedToken |-> f.signedToken, generated |-> f.generated, ovCount |-> f.ovCount,
   tsEpoch |-> f.tsEpoch]

\* The frame of an operation that awaits a response or has ended: the locals
\* of the header builder are gone.
Suspended(f, pc) ==
  [f EXCEPT !.pc = pc, !.ts = "", !.tsEpoch = 0, !.generated = NoHeaders,
            !.hdr = NoHeaders, !.ovCount = 0, !.signedBody = "", !.signedPath = "",
            !.signedToken = ""]

\* JSON.stringify of { grant_type: 'client_credentials' }
OpenApiPayload == << [k |-> "grant_type", v |-> "\"client_credentials\""] >>

(***************************************************************************)
(* Spec: one SnapBi instance, its builder methods and its operations.  An  *)
(* operation runs from one await to the next in one step; builder calls    *)
(* and the steps of other operations may come between two steps.           *)
(***************************************************************************)

\* At most MaxBuilderCalls builder methods are called on the instance.
MaxBuilderCalls == 2

PaymentMethods == {"va", ""}
Operations == TransactionOps \cup {"getAccessToken"}
\* The caller gives every operation call an external id of its own.
ExternalId(n) == "ext-" \o Digit(n)
RequestBodies == {BodyA, BodyB}

\* The header objects a caller passes to withTransactionHeader and to
\* withAccessTokenHeader.
TransactionOverrides ==
  { "X-TIMESTAMP" :> "2020-02-02T02:02:02.000Z",
    ("X-TIMESTAMP" :> "2021-03-03T03:03:03.000Z") @@ ("X-SIGNATURE" :> "caller-signature") }
AccessTokenOverrides ==
  { "X-CLIENT-KEY" :> "caller-client",
    ("X-TIMESTAMP" :> "2021-03-03T03:03:03.000Z") @@ ("X-CLIENT-KEY" :> "caller-client-2") }

\* The configuration of a merchant.
MerchantConfig ==
  NewConfig([snapBiClientId |-> "C1", snapBiPrivateKey |-> PrivatePemOf("K1"),
             snapBiClientSecret |-> "S1", snapBiPartnerId |-> "partner-1",
             snapBiChannelId |-> "channel-1", snapBiPublicKey |-> PublicPemOf("K2")])

Init ==
  /\ config = MerchantConfig
  /\ \E m \in PaymentMethods :
       snapBi = withDebugId(withDeviceId(NewSnapBi(m, 0), "device-1"), "debug-1")
  /\ now = 0
  /\ frames = << >>
  /\ net = << >>
  /\ hist = NoHistory
  /\ SymUnused /\ RsaUnused /\ LibUnused /\ WhUnused

BuilderCalls == Len(hist.accessTokenHeader) + Len(hist.transactionHeader) + hist.timeStamp
                + hist.other

WithAccessTokenHeader ==
  /\ BuilderCalls < MaxBuilderCalls
  /\ \E headers \in AccessTokenOverrides :
       /\ snapBi' = withAccessTokenHeader(snapBi, headers)
       /\ hist' = [hist EXCEPT !.accessTokenHeader = Append(@, headers)]
  /\ UNCHANGED <<config, now, frames, net, symVars, rsaVars, libVars, wh>>

WithTransactionHeader ==
  /\ BuilderCalls < MaxBuilderCalls
  /\ \E headers \in TransactionOverrides :
       /\ snapBi' = withTransactionHeader(snapBi, headers)
       /\ hist' = [hist EXCEPT !.transactionHeader = Append(@, headers)]
  /\ UNCHANGED <<config, now, frames, net, symVars, rsaVars, libVars, wh>>

WithTimeStamp ==
  /\ BuilderCalls < MaxBuilderCalls
  /\ snapBi' = withTimeStamp(snapBi, toISOString(now))
  /\ hist' = [hist EXCEPT !.timeStamp = @ + 1]
  /\ UNCHANGED <<config, now, frames, net, symVars, rsaVars, libVars, wh>>

WithAccessToken ==
  /\ BuilderCalls < MaxBuilderCalls
  /\ snapBi' = withAccessToken(snapBi, "AT-caller")
  /\ hist' = [hist EXCEPT !.other = @ + 1]
  /\ UNCHANGED <<config, now, frames, net, symVars, rsaVars, libVars, wh>>

WithBody ==
  /\ BuilderCalls < MaxBuilderCalls
  /\ \E body \in RequestBodies : snapBi' = withBody(snapBi, body)
  /\ hist' = [hist EXCEPT !.other = @ + 1]
  /\ UNCHANGED <<config, now, frames, net, symVars, rsaVars, libVars, wh>>

\* The arguments of withTimeout, withDeviceId and withDebugId.
Timeouts == {0, 5000}
DeviceIds == {"device-2"}
DebugIds == {"debug-2"}

WithTimeout ==
  /\ BuilderCalls < MaxBuilderCalls
  /\ \E timeout \in Timeouts : snapBi' = withTimeout(snapBi, timeout)
  /\ hist' = [hist EXCEPT !.other = @ + 1]
  /\ UNCHANGED <<config, now, frames, net, symVars, rsaVars, libVars, wh>>

WithDeviceId ==
  /\ BuilderCalls < MaxBuilderCalls
  /\ \E deviceId \in DeviceIds : snapBi' = withDeviceId(snapBi, deviceId)
  /\ hist' = [hist EXCEPT !.other = @ + 1]
  /\ UNCHANGED <<config, now, frames, net, symVars, rsaVars, libVars, wh>>

WithDebugId ==
  /\ BuilderCalls < MaxBuilderCalls
  /\ \E debugId \in DebugIds : snapBi' = withDebugId(snapBi, debugId)
  /\ hist' = [hist EXCEPT !.other = @ + 1]
  /\ UNCHANGED <<config, now, frames, net, symVars, rsaVars, libVars, wh>>

\* createPayment, cancel, refund, getStatus and getAccessToken, from the
\* call to the first await.  The clock has advanced since the last call.
Call ==
  /\ Len(frames) < MaxClock
  /\ now' = now + 1
  /\ \E op \in Operations :
       LET f == NewFrame(op, ExternalId(Len(frames) + 1), now + 1)
       IN IF op = "getAccessToken"
          THEN /\ frames' = Append(frames, BeginAccessToken(f, config, snapBi, hist))
               /\ UNCHANGED snapBi
          ELSE LET apiPath == SetupApiPath(op, snapBi.paymentMethod)
                   self == [snapBi EXCEPT !.apiPath = apiPath]
               IN IF apiPath = NotImplemented
                  THEN /\ frames' = Append(frames,
                            [f EXCEPT !.pc = "done",
                                      !.result = Rejected("Payment method not implemented: "
                                                          \o snapBi.paymentMethod)])
                       /\ UNCHANGED snapBi
                  ELSE /\ snapBi' = self
                       /\ frames' = Append(frames,
                            IF Falsy(self.accessToken)
                            THEN BeginAccessToken(f, config, self, hist)
                            ELSE BeginTransaction(f, config, self, hist))
  /\ UNCHANGED <<config, net, hist, symVars, rsaVars, libVars, wh>>

\* The RSA signature is ready: the token header is finished and remoteCall
\* hands the token request to fetch.
AccessTokenSend(i) ==
  /\ frames[i].pc = "at_sign"
  /\ LET f == FinishAccessTokenHeader(frames[i], snapBi, hist)
     IN /\ net' = Append(net, Request(i, f, "token", getBaseUrl(config) \o ACCESS_TOKEN,
                                      JSONStringify(OpenApiPayload),
                                      TimeoutOrDefault(snapBi.timeout)))
        /\ frames' = [frames EXCEPT ![i] = Suspended(f, "at_wait")]
  /\ UNCHANGED <<config, snapBi, now, hist, symVars, rsaVars, libVars, wh>>

\* remoteCall resolves; getAccessToken throws on an error value; a
\* transaction operation stores the token and starts its header.
AccessTokenResponse(i) ==
  /\ frames[i].pc = "at_wait"
  /\ \E response \in AccessTokenResults :
       IF IsErrorValue(response)
       THEN /\ frames' = [frames EXCEPT ![i].pc = "done",
                 ![i].result = Rejected("Failed to get access token: " \o response.message)]
            /\ UNCHANGED snapBi
       ELSE IF frames[i].op = "getAccessToken" \/ response.accessToken \in {undefined, ""}
       THEN /\ frames' = [frames EXCEPT ![i].pc = "done", ![i].result = Resolved(response)]
            /\ UNCHANGED snapBi
       ELSE LET self == [snapBi EXCEPT !.accessToken = response.accessToken]
            IN /\ snapBi' = self
               /\ frames' = [frames EXCEPT ![i] = BeginTransaction(@, config, self, hist)]
  /\ UNCHANGED <<config, now, net, hist, symVars, rsaVars, libVars, wh>>

\* The HMAC signer settles.  When it rejects (the key import refused the
\* secret) the operation is rejected and nothing is sent; otherwise the
\* transaction header is finished and remoteCall hands the transaction
\* request to fetch, with the path and the body the instance holds now.
TransactionSend(i) ==
  /\ frames[i].pc = "tx_sign"
  /\ IF frames[i].generated["X-SIGNATURE"] = THROW
     THEN /\ frames' = [frames EXCEPT ![i] =
                 [Suspended(@, "done") EXCEPT !.result = Rejected("signing failed")]]
          /\ UNCHANGED net
     ELSE LET f == FinishTransactionHeader(frames[i], snapBi, hist)
          IN /\ net' = Append(net, Request(i, f, "transaction",
                                           getBaseUrl(config) \o snapBi.apiPath,
                                           JSONStringify(snapBi.body),
                                           TimeoutOrDefault(snapBi.timeout)))
             /\ frames' = [frames EXCEPT ![i] = Suspended(f, "tx_wait")]
  /\ UNCHANGED <<config, snapBi, now, hist, symVars, rsaVars, libVars, wh>>

TransactionResponse(i) ==
  /\ frames[i].pc = "tx_wait"
  /\ \E response \in TransactionResults :
       frames' = [frames EXCEPT ![i].pc = "done", ![i].result = Resolved(response)]
  /\ UNCHANGED <<config, snapBi, now, net, hist, symVars, rsaVars, libVars, wh>>

Next ==
  \/ WithAccessTokenHeader
  \/ WithTransactionHeader
  \/ WithTimeStamp
  \/ WithAccessToken
  \/ WithBody
  \/ WithTimeout
  \/ WithDeviceId
  \/ WithDebugId
  \/ Call
  \/ \E i \in DOMAIN frames : AccessTokenSend(i)
  \/ \E i \in DOMAIN frames : AccessTokenResponse(i)
  \/ \E i \in DOMAIN frames : TransactionSend(i)
  \/ \E i \in DOMAIN frames : TransactionResponse(i)

Spec == Init /\ [][Next]_vars

(***************************************************************************)
(* SpecOperations: the operations alone, on instances that were prepared   *)
(* before the first operation, under configurations that are complete,    *)
(* partial or unusable.  No builder method is called once an operation has *)
(* started; two operations may still overlap.                              *)
(***************************************************************************)

\* A private key text whose base64 body decodes to bytes that are no key.
MalformedPrivateKey == Pem("PRIVATE KEY", btoa(JunkDer))

OperationConfigs ==
  { MerchantConfig,
    ConfigSet(MerchantConfig, [isProduction |-> TRUE]),
    ConfigSet(MerchantConfig, [snapBiPartnerId |-> null, snapBiChannelId |-> null]),
    ConfigSet(MerchantConfig, [snapBiPrivateKey |-> MalformedPrivateKey]),
    ConfigSet(MerchantConfig, [snapBiPrivateKey |-> null]),
    ConfigSet(MerchantConfig, [snapBiClientSecret |-> null]) }

\* An instance as its factory returns it, after withDeviceId, withDebugId
\* and withBody, and after withAccessToken as well.
PreparedInstances(paymentMethod) ==
  LET fresh == NewSnapBi(paymentMethod, 0)
      prepared == withBody(withDebugId(withDeviceId(fresh, "device-1"), "debug-1"), BodyA)
  IN {fresh, prepared, withAccessToken(prepared, "AT-caller")}

AllPaymentMethods == {"directDebit", "va", "qris", ""}

InitOperations ==
  /\ config \in OperationConfigs
  /\ \E m \in AllPaymentMethods : snapBi \in PreparedInstances(m)
  /\ now = 0
  /\ frames = << >>
  /\ net = << >>
  /\ hist = NoHistory
  /\ SymUnused /\ RsaUnused /\ LibUnused /\ WhUnused

NextOperations ==
  \/ Call
  \/ \E i \in DOMAIN frames : AccessTokenSend(i)
  \/ \E i \in DOMAIN frames : AccessTokenResponse(i)
  \/ \E i \in DOMAIN frames : TransactionSend(i)
  \/ \E i \in DOMAIN frames : TransactionResponse(i)

SpecOperations == InitOperations /\ [][NextOperations]_vars

(***************************************************************************)
(* Claims about the requests of an instance (Spec).                        *)
(***************************************************************************)

Requests == {net[k] : k \in DOMAIN net}
TransactionRequests == {r \in Requests : r.kind = "transaction"}

\* C7 (as stated): in every transaction request that is sent, the body text
\* hashed into the string-to-sign of X-SIGNATURE is the body text that is
\* transmitted, whatever withBody calls are made and whenever.
C7_SignedBodyIsSentBody ==
  \A r \in TransactionRequests : r.body = r.signedBody

\* The with*Header calls whose headers had been accumulated when the header
\* of request r was merged, oldest first.
OverrideCalls(r) ==
  SubSeq(IF r.kind = "token" THEN hist.accessTokenHeader ELSE hist.transactionHeader,
         1, r.ovCount)
OverriddenNames(r) ==
  UNION {DOMAIN OverrideCalls(r)[k] : k \in 1..r.ovCount}

\* C8 (as stated): in every token request and every transaction request the
\* X-TIMESTAMP header equals the timestamp in the string-to-sign, after any
\* withTimeStamp, withAccessTokenHeader and withTransactionHeader calls.
C8_Original ==
  \A r \in Requests : r.headers["X-TIMESTAMP"] = r.signedTs

\* C8 (amended): in every token request and every transaction request for
\* which the caller's with*Header calls did not set X-TIMESTAMP, the
\* X-TIMESTAMP header equals the timestamp in the string-to-sign, after any
\* withTimeStamp calls and any other overrides.
C8_TimestampConsistent ==
  \A r \in Requests :
    "X-TIMESTAMP" \notin OverriddenNames(r) => r.headers["X-TIMESTAMP"] = r.signedTs

\* A request sent after a withTimeStamp call and with an override merged
\* that leaves X-TIMESTAMP alone: header and signed timestamp agree.
C8_Witness ==
  \E r \in Requests :
    /\ r.tsEpoch > 0
    /\ r.ovCount > 0
    /\ "X-TIMESTAMP" \notin OverriddenNames(r)
    /\ r.signedTs # toISOString(0)
    /\ r.headers["X-TIMESTAMP"] = r.signedTs

\* C9 (as stated): the timestamp is generated per call.  Two requests of
\* different operation calls with no withTimeStamp call between the reads of
\* their timestamps do not sign the same timestamp, and the requests of one
\* operation call sign the same timestamp.
C9_TimestampPerCall ==
  \A r1, r2 \in Requests :
    /\ (r1.call # r2.call /\ r1.tsEpoch = r2.tsEpoch) => r1.signedTs # r2.signedTs
    /\ r1.call = r2.call => r1.signedTs = r2.signedTs

\* The value the latest of the calls gives the name n.
RECURSIVE LatestValue(_, _)
LatestValue(calls, n) ==
  IF n \in DOMAIN calls[Len(calls)] THEN calls[Len(calls)][n]
  ELSE LatestValue(SubSeq(calls, 1, Len(calls) - 1), n)

\* C10: a request carries, for every header name a with*Header call of its
\* kind has set, the value of the latest such call, and for every other
\* generated name the generated value; it carries no other header.
C10_OverridesWin ==
  \A r \in Requests :
    /\ DOMAIN r.headers = DOMAIN r.generated \cup OverriddenNames(r)
    /\ \A n \in DOMAIN r.headers :
         r.headers[n] = IF n \in OverriddenNames(r)
                        THEN LatestValue(OverrideCalls(r), n)
                        ELSE r.generated[n]

\* A transaction request merged after two withTransactionHeader calls that
\* set X-TIMESTAMP to different values: it carries the second value, the
\* generated X-TIMESTAMP is gone and the generated Authorization is kept.
C10_Witness ==
  \E r \in TransactionRequests :
    /\ r.ovCount = 2
    /\ "X-TIMESTAMP" \in DOMAIN OverrideCalls(r)[1]
    /\ OverrideCalls(r)[1]["X-TIMESTAMP"] # OverrideCalls(r)[2]["X-TIMESTAMP"]
    /\ r.headers["X-TIMESTAMP"] = OverrideCalls(r)[2]["X-TIMESTAMP"]
    /\ r.headers["X-TIMESTAMP"] # r.generated["X-TIMESTAMP"]
    /\ "Authorization" \notin OverriddenNames(r)
    /\ r.headers["Authorization"] = r.generated["Authorization"]

(***************************************************************************)
(* Claims about the headers and the failures of operations                 *)
(* (SpecOperations).  No builder method runs after the first operation, so *)
(* the body, the timestamp and the ids of the instance are those every     *)
(* header was built from, and an access token that is set stays.           *)
(***************************************************************************)

TokenRequests == {r \in Requests : r.kind = "token"}

\* C11: a transaction request without overrides carries exactly the ten
\* generated headers: X-SIGNATURE is the HMAC-SHA512, under the configured
\* client secret, of POST:path:accessToken:sha256(body):timestamp, where
\* path is the API path the instance held when the header was built (the
\* path of the operation, when it is the only one called); Authorization is
\* "Bearer " and that access token; X-TIMESTAMP is that timestamp;
\* X-EXTERNAL-ID is the externalId argument; the partner, channel, device
\* and debug ids are the configured ones, "" when unset.
C11_TransactionHeader ==
  \A r \in TransactionRequests :
    OverriddenNames(r) = {} =>
      LET stringToSign == "POST:" \o r.signedPath \o ":" \o snapBi.accessToken \o ":"
                          \o sha256Hash(JSONStringify(snapBi.body)) \o ":"
                          \o snapBi.timeStamp
      IN /\ r.headers =
              ("Content-Type" :> "application/json")
              @@ ("Accept" :> "application/json")
              @@ ("X-PARTNER-ID" :> IF config.snapBiPartnerId = null THEN ""
                                    ELSE config.snapBiPartnerId)
              @@ ("X-EXTERNAL-ID" :> frames[r.call].externalId)
              @@ ("X-DEVICE-ID" :> snapBi.deviceId)
              @@ ("CHANNEL-ID" :> IF config.snapBiChannelId = null THEN ""
                                  ELSE config.snapBiChannelId)
              @@ ("debug-id" :> snapBi.debugId)
              @@ ("Authorization" :> "Bearer " \o snapBi.accessToken)
              @@ ("X-TIMESTAMP" :> snapBi.timeStamp)
              @@ ("X-SIGNATURE" :> btoa(HmacSha512Bytes(config.snapBiClientSecret,
                                                        stringToSign)))
         /\ Len(frames) = 1 =>
              r.signedPath = SetupApiPath(frames[1].op, snapBi.paymentMethod)

\* The only operation called so far has sent its transaction request, under
\* a configuration without partner and channel id, from an instance with a
\* device id and a body.
C11_Witness ==
  \E r \in TransactionRequests :
    /\ Len(frames) = 1
    /\ config.snapBiPartnerId = null
    /\ r.headers["X-PARTNER-ID"] = ""
    /\ r.headers["X-DEVICE-ID"] = "device-1"
    /\ r.headers["X-EXTERNAL-ID"] = "ext-1"
    /\ r.signedBody = JSONStringify(BodyA)

\* C12: a token request without overrides carries X-SIGNATURE equal to the
\* RSA-SHA256 signature, under the configured private key, of
\* clientId|timestamp, X-CLIENT-KEY equal to that client id and X-TIMESTAMP
\* equal to that timestamp.
C12_AccessTokenHeader ==
  \A r \in TokenRequests :
    OverriddenNames(r) = {} =>
      /\ \E k \in KeyPairs :
           /\ config.snapBiPrivateKey = PrivatePemOf(k)
           /\ r.headers["X-SIGNATURE"] =
                btoa(RsaSignBytes(k, config.snapBiClientId \o "|" \o snapBi.timeStamp))
      /\ r.headers["X-CLIENT-KEY"] = config.snapBiClientId
      /\ r.headers["X-TIMESTAMP"] = snapBi.timeStamp

\* A token request was sent, signed with the key pair K1.
C12_Witness ==
  \E r \in TokenRequests :
    /\ OverriddenNames(r) = {}
    /\ r.headers["X-SIGNATURE"] = btoa(RsaSignBytes("K1", "C1|" \o toISOString(0)))
    /\ r.headers["X-CLIENT-KEY"] = "C1"

\* The configured private key is no PKCS#8 key; no client secret is
\* configured.
PrivateKeyUnusable == \A k \in KeyPairs : config.snapBiPrivateKey # PrivatePemOf(k)
ClientSecretUnusable == config.snapBiClientSecret \in {null, ""}

\* C17: when the RSA signature cannot be computed, no token request is sent
\* and every operation that needs one is rejected; when the HMAC signature
\* cannot be computed, no transaction request is sent and every transaction
\* operation that comes to sign is rejected.
C17_SigningFailureIsFatal ==
  /\ PrivateKeyUnusable =>
       /\ TokenRequests = {}
       /\ \A i \in DOMAIN frames :
            (frames[i].op = "getAccessToken"
             \/ (snapBi.accessToken = ""
                 /\ SetupApiPath(frames[i].op, snapBi.paymentMethod) # NotImplemented))
            => frames[i].pc = "done" /\ frames[i].result.outcome = "rejected"
  /\ ClientSecretUnusable =>
       /\ TransactionRequests = {}
       /\ \A i \in DOMAIN frames :
            /\ frames[i].pc # "tx_wait"
            /\ (frames[i].op \in TransactionOps /\ frames[i].pc = "done")
               => \/ frames[i].result.outcome = "rejected"
                  \/ frames[i].result = Resolved(ServerRefusal)

\* Without a client secret, a transaction operation has sent its token
\* request, received a token and been rejected when it came to sign.
C17_Witness ==
  /\ ClientSecretUnusable
  /\ \E i \in DOMAIN frames :
       /\ frames[i].op \in TransactionOps
       /\ frames[i].result = Rejected("signing failed")
       /\ \E r \in TokenRequests : r.call = i
       /\ snapBi.accessToken = "AT-server"

\* C13 (as stated): every transaction request goes to the endpoint of the
\* operation that was invoked and signs that endpoint's path, with the body
\* of the instance, whatever other operation runs on the instance meanwhile.
C13_OperationsIndependent ==
  \A r \in TransactionRequests :
    LET path == SetupApiPath(frames[r.call].op, snapBi.paymentMethod)
    IN /\ r.url = getBaseUrl(config) \o path
       /\ r.signedPath = path
       /\ r.body = JSONStringify(snapBi.body)
       /\ r.signedBody = r.body

\* The error values remoteCall builds for a timeout and for a failed fetch.
NetworkErrorValues == {TimeoutValue, FailureValue}

\* C16 (as stated): no operation is rejected because a request of it timed
\* out or failed; an operation whose request timed out resolves with the
\* value whose status is 'TIMEOUT'.
C16_NetworkErrorsAreValues ==
  \A i \in DOMAIN frames :
    frames[i].result.outcome = "rejected" =>
      \A e \in NetworkErrorValues :
        frames[i].result.message # "Failed to get access token: " \o e.message

(***************************************************************************)
(* SpecRemoteCall: one call of SnapBiApiRequestor.remoteCall, its timer    *)
(* and the network.  Time is counted in ticks; the timer set by setTimeout *)
(* is due when `timeout` ticks have elapsed.  The numeric status 500 of an *)
(* error value is held as the text "500".                                  *)
(*   pc       idle, fetching (awaiting fetch), reading (awaiting           *)
(*            response.json()), settled                                    *)
(*   timer    unset, armed, cleared (clearTimeout), fired                  *)
(*   sent     whether fetch was given the request                          *)
(*   cause    what ended the call: none (a parsed response), abort,        *)
(*            network, body, stringify                                     *)
(***************************************************************************)

\* Time stops at MaxElapsed ticks after the call.
MaxElapsed == 3

\* The errors that can be thrown inside the try block.
AbortError == [isError |-> TRUE, name |-> "AbortError", message |-> "This operation was aborted"]
FetchFailed == [isError |-> TRUE, name |-> "TypeError", message |-> "fetch failed"]
BodyTerminated == [isError |-> TRUE, name |-> "TypeError", message |-> "terminated"]
BodyNotJson == [isError |-> TRUE, name |-> "SyntaxError", message |-> "Unexpected token"]
NotSerialisable ==
  [isError |-> TRUE, name |-> "TypeError", message |-> "Do not know how to serialize a BigInt"]

\* What a call settles with.
RcPending == [outcome |-> PENDING, value |-> NoResult]
RcResolved(value) == [outcome |-> "resolved", value |-> value]
RcRejected(error) ==
  [outcome |-> "rejected",
   value |-> [status |-> undefined, message |-> error.message, accessToken |-> undefined]]

\* A catch block that rethrows what is not an abort.
RemoteCatchRethrow(error) ==
  IF error.isError /\ error.name = "AbortError"
  THEN RcResolved(TimeoutValue)
  ELSE RcRejected(error)

\* The catch block of remoteCall: the value it returns for an error.
RemoteCatch(error) ==
  IF error.isError
  THEN IF error.name = "AbortError"
       THEN RcResolved([status |-> "TIMEOUT", message |-> "Request timeout",
                        accessToken |-> undefined])
       ELSE RcResolved([status |-> "500", message |-> error.message,
                        accessToken |-> undefined])
  ELSE RcResolved([status |-> "500", message |-> "Unknown error occurred",
                   accessToken |-> undefined])

\* The inputs of a call and the bodies and statuses of responses.
RemoteBodies == {BodyEmpty, BodyA, BodyBigInt}
RemoteTimeouts == {1, 2}
HttpStatuses == {"200", "401", "500"}
ErrorBody == [status |-> "401", message |-> "Unauthorized", accessToken |-> undefined]
ResponseBodies == {TokenGranted, ServerRefusal, ErrorBody}

InitRemoteCall ==
  /\ \E body \in RemoteBodies, timeout \in RemoteTimeouts, logging \in BOOLEAN :
       rc = [pc |-> "idle", body |-> body, timeout |-> timeout, logging |-> logging,
             timer |-> "unset", elapsed |-> 0, sent |-> FALSE, httpStatus |-> "",
             received |-> NoResult, cause |-> "none", result |-> RcPending]
  /\ hc = << >>
  /\ SymUnused /\ RsaUnused /\ ObjUnused /\ WhUnused /\ OpUnused

\* remoteCall up to the await of fetch: logRequest when logging is enabled
\* (outside the try), setTimeout, and the evaluation of fetch's arguments.
RcCall ==
  /\ rc.pc = "idle"
  /\ rc' = IF rc.logging /\ rc.body # << >> /\ JSONStringify(rc.body) = THROW
           THEN [rc EXCEPT !.pc = "settled", !.cause = "stringify",
                           !.result = RcRejected(NotSerialisable)]
           ELSE IF JSONStringify(rc.body) = THROW
           THEN [rc EXCEPT !.pc = "settled", !.timer = "cleared", !.cause = "stringify",
                           !.result = RemoteCatch(NotSerialisable)]
           ELSE [rc EXCEPT !.pc = "fetching", !.timer = "armed", !.sent = TRUE]
  /\ UNCHANGED <<hc, symVars, rsaVars, objVars, wh, opVars>>

\* Time passes; it does not pass a timer that is due.
RcTick ==
  /\ rc.pc \in {"fetching", "reading"}
  /\ rc.elapsed < MaxElapsed
  /\ ~(rc.timer = "armed" /\ rc.elapsed >= rc.timeout)
  /\ rc' = [rc EXCEPT !.elapsed = @ + 1]
  /\ UNCHANGED <<hc, symVars, rsaVars, objVars, wh, opVars>>

\* The timer is due: controller.abort(), fetch rejects with an AbortError
\* and the catch block runs.
RcTimerFires ==
  /\ rc.timer = "armed"
  /\ rc.elapsed >= rc.timeout
  /\ rc' = [rc EXCEPT !.pc = "settled", !.timer = "fired", !.cause = "abort",
                      !.result = RemoteCatch(AbortError)]
  /\ UNCHANGED <<hc, symVars, rsaVars, objVars, wh, opVars>>

\* fetch resolves: the status line and the headers of the response have
\* arrived.  clearTimeout, then response.json() is awaited.
RcResponse ==
  /\ rc.pc = "fetching"
  /\ \E status \in HttpStatuses :
       rc' = [rc EXCEPT !.pc = "reading", !.timer = "cleared", !.httpStatus = status]
  /\ UNCHANGED <<hc, symVars, rsaVars, objVars, wh, opVars>>

\* fetch rejects: the connection failed.
RcFetchFails ==
  /\ rc.pc = "fetching"
  /\ rc' = [rc EXCEPT !.pc = "settled", !.timer = "cleared", !.cause = "network",
                      !.result = RemoteCatch(FetchFailed)]
  /\ UNCHANGED <<hc, symVars, rsaVars, objVars, wh, opVars>>

\* response.json() resolves with the parsed body, which is returned.
RcBodyRead ==
  /\ rc.pc = "reading"
  /\ \E data \in ResponseBodies :
       rc' = [rc EXCEPT !.pc = "settled", !.received = data, !.result = RcResolved(data)]
  /\ UNCHANGED <<hc, symVars, rsaVars, objVars, wh, opVars>>

\* response.json() rejects: the body is no JSON or the connection broke.
RcBodyFails ==
  /\ rc.pc = "reading"
  /\ \E error \in {BodyNotJson, BodyTerminated} :
       rc' = [rc EXCEPT !.pc = "settled", !.cause = "body", !.result = RemoteCatch(error)]
  /\ UNCHANGED <<hc, symVars, rsaVars, objVars, wh, opVars>>

NextRemoteCall ==
  \/ RcCall
  \/ RcTick
  \/ RcTimerFires
  \/ RcResponse
  \/ RcFetchFails
  \/ RcBodyRead
  \/ RcBodyFails

SpecRemoteCall == InitRemoteCall /\ [][NextRemoteCall]_vars

\* The clock advances and the event loop runs a timer that is due; the
\* network owes nothing.
LiveRemoteCall == SpecRemoteCall /\ WF_vars(RcTick) /\ WF_vars(RcTimerFires)

\* C14 (as stated): every remoteCall that awaits the network eventually
\* settles.
C14_RemoteCallSettles ==
  (rc.pc \in {"fetching", "reading"}) ~> (rc.pc = "settled")

\* C15 (as stated): remoteCall never rejects; an abort by the timer gives
\* the value with status 'TIMEOUT', any other failure a value with status
\* 500 and the message of the error, and a parsed response is returned
\* unchanged whatever its HTTP status.
C15_Original ==
  rc.pc = "settled" =>
    /\ rc.result.outcome = "resolved"
    /\ rc.cause = "abort" =>
         rc.result.value.status = "TIMEOUT" /\ rc.result.value.message = "Request timeout"
    /\ rc.cause \in {"network", "body", "stringify"} =>
         rc.result.value.status = "500" /\ rc.result.value.message # undefined
    /\ rc.cause = "none" => rc.result.value = rc.received

\* C15 (amended): with logging enabled and a non-empty body that
\* JSON.stringify refuses, remoteCall rejects before anything is sent; in
\* every other case it resolves: an abort by the timer gives the value with
\* status 'TIMEOUT', any other failure a value with status 500 and the
\* message of the error, and a parsed response is returned unchanged
\* whatever its HTTP status.
C15_FailuresAreValues ==
  rc.pc = "settled" =>
    IF rc.logging /\ rc.body = BodyBigInt
    THEN rc.result.outcome = "rejected" /\ ~rc.sent
    ELSE /\ rc.result.outcome = "resolved"
         /\ rc.cause = "abort" =>
              rc.result.value.status = "TIMEOUT"
              /\ rc.result.value.message = "Request timeout"
         /\ rc.cause \in {"network", "body", "stringify"} =>
              rc.result.value.status = "500" /\ rc.result.value.message # undefined
         /\ rc.cause = "none" => rc.result.value = rc.received

\* A response with HTTP status 500 was parsed and returned.
C15_Witness ==
  /\ rc.pc = "settled"
  /\ rc.httpStatus = "500"
  /\ rc.cause = "none"
  /\ rc.result = RcResolved(ErrorBody)


(***************************************************************************)
(* HttpClient.request and its callers Transaction.status,                  *)
(* Transaction.notification and Iris.getTransactionHistory.  One call is   *)
(* followed from its arguments to the request put on the wire and from    *)
(* the response to the settled promise.  A JavaScript value is a record   *)
(* [type, text, members]: a string has its text, an object its members,   *)
(* a number its decimal text.                                              *)
(***************************************************************************)

JsString(t) == [type |-> "string", text |-> t, members |-> << >>]
JsNumber(t) == [type |-> "number", text |-> t, members |-> << >>]
JsObject(ms) == [type |-> "object", text |-> "", members |-> ms]
JsNull == [type |-> "null", text |-> "", members |-> << >>]
JsThrow == [type |-> THROW, text |-> "", members |-> << >>]

\* The JSON text of a string made of characters that need no escape.
Quote(s) == "\"" \o s \o "\""

StringUniverse ==
  {"", "tx-1", "settlement", "order-1", "2024-01-01", "2024-01-31", "a b",
   "200", "404", "407", "Success", "100"}

NotificationA ==
  << [k |-> "transaction_id", v |-> Quote("tx-1")],
     [k |-> "transaction_status", v |-> Quote("settlement")] >>
NotificationNumericId == << [k |-> "transaction_id", v |-> "42"] >>
NotificationEmptyId == << [k |-> "transaction_id", v |-> Quote("")] >>
NotificationNoId == << [k |-> "order_id", v |-> Quote("order-1")] >>

HistoryRange ==
  << [k |-> "from_date", v |-> Quote("2024-01-01")],
     [k |-> "to_date", v |-> Quote("2024-01-31")] >>
HistoryFrom == << [k |-> "from_date", v |-> Quote("2024-01-01")] >>
QuerySpace == << [k |-> "q", v |-> Quote("a b")] >>

\* A response body with the given status_code member.
StatusBody(code) ==
  << [k |-> "status_code", v |-> code], [k |-> "status_message", v |-> Quote("Success")] >>
BalanceBody == << [k |-> "balance", v |-> Quote("100")] >>

StatusCodeValues == {Quote("200"), Quote("404"), Quote("407"), "407", "500"}

\* The objects whose JSON texts are parsed in this model.
JsonObjects ==
  {BodyEmpty, BodyA, NotificationA, NotificationNumericId, NotificationEmptyId,
   NotificationNoId, HistoryRange, HistoryFrom, QuerySpace, BalanceBody}
  \cup {StatusBody(code) : code \in StatusCodeValues}

\* JSON.parse of a text: the object it is the text of, null, a number, or
\* a SyntaxError.
JSONParse(text) ==
  IF \E o \in JsonObjects : JSONStringify(o) = text
  THEN JsObject(CHOOSE o \in JsonObjects : JSONStringify(o) = text)
  ELSE IF text = "null" THEN JsNull
  ELSE IF text = "42" THEN JsNumber("42")
  ELSE JsThrow

\* value[key]: a TypeError on null, the member of an object (the JSON text
\* of its value), undefined on an object without it and on a number.
GetMember(value, key) ==
  IF value.type = "null" THEN THROW
  ELSE IF \E i \in DOMAIN value.members : value.members[i].k = key
  THEN value.members[CHOOSE i \in DOMAIN value.members : value.members[i].k = key].v
  ELSE undefined

\* The truth value of a member value in a condition.
ToBoolean(v) == v \notin {undefined, "null", "false", "0", Quote("")}

\* String(v) and `${v}` of a member value: a string without its quotes,
\* anything else as it prints.
StringOf(v) ==
  IF \E s \in StringUniverse : v = Quote(s)
  THEN CHOOSE s \in StringUniverse : v = Quote(s)
  ELSE IF v = undefined THEN "undefined" ELSE v

StatusNumbers == {200, 201, 404, 407, 500}
StatusText(n) ==
  CASE n = 200 -> "200" [] n = 201 -> "201" [] n = 404 -> "404"
    [] n = 407 -> "407" [] n = 500 -> "500"

\* Number(v) of a status_code out of StatusCodeValues.
NumberOf(v) == CHOOSE n \in StatusNumbers : StatusText(n) = StringOf(v)

\* encodeURIComponent: of the texts met here only the space is escaped.
encodeURIComponent(s) == IF s = "a b" THEN "a%20b" ELSE s

LowerLetters ==
  {"a", "b", "c", "d", "e", "f", "g", "h", "i", "j", "k", "l", "m", "n", "o", "p", "q",
   "r", "s", "t", "u", "v", "w", "x", "y", "z"}
LowerChar(c) ==
  IF \E d \in LowerLetters : UpperChar(d) = c
  THEN CHOOSE d \in LowerLetters : UpperChar(d) = c
  ELSE c
ToLowerCase(cs) == Str([i \in DOMAIN cs |-> LowerChar(cs[i])])

MethodGET == <<"G", "E", "T">>

\* ApiConfig.getCoreApiBaseUrl: CORE_PRODUCTION_BASE_URL or
\* CORE_SANDBOX_BASE_URL.
getCoreApiBaseUrl(isProduction) ==
  IF isProduction THEN "https://api.midtrans.com" ELSE "https://api.sandbox.midtrans.com"
\* ApiConfig.getIrisApiBaseUrl: IRIS_PRODUCTION_BASE_URL or
\* IRIS_SANDBOX_BASE_URL.
getIrisApiBaseUrl(isProduction) ==
  IF isProduction THEN "https://app.midtrans.com/iris/api/v1"
  ELSE "https://app.sandbox.midtrans.com/iris/api/v1"

\* HttpClient.parseParam: a string is parsed, anything else is kept.
parseParam(param) == IF param.type = "string" THEN JSONParse(param.text) ELSE param

RECURSIVE JoinQuery(_)
JoinQuery(ms) ==
  IF ms = << >> THEN ""
  ELSE encodeURIComponent(Head(ms).k) \o "=" \o encodeURIComponent(StringOf(Head(ms).v))
       \o (IF Tail(ms) = << >> THEN "" ELSE "&" \o JoinQuery(Tail(ms)))

\* HttpClient.buildUrl.
buildUrl(baseUrl, queryParams) ==
  IF Len(queryParams.members) = 0 THEN baseUrl
  ELSE baseUrl \o "?" \o JoinQuery(queryParams.members)

HcPending ==
  [outcome |-> PENDING, name |-> "", message |-> "", httpStatusCode |-> null,
   ApiResponse |-> null, rawStatusCode |-> undefined, value |-> undefined]
HcResolved(data) ==
  [outcome |-> "resolved", name |-> "", message |-> "", httpStatusCode |-> null,
   ApiResponse |-> null, rawStatusCode |-> undefined, value |-> data]
HcRejected(name, message, httpStatusCode, ApiResponse, rawStatusCode) ==
  [outcome |-> "rejected", name |-> name, message |-> message,
   httpStatusCode |-> httpStatusCode, ApiResponse |-> ApiResponse,
   rawStatusCode |-> rawStatusCode, value |-> undefined]

\* new MidtransError(message, httpStatusCode, ApiResponse, rawHttpClientData);
\* of rawHttpClientData its statusCode is kept, undefined when it has none.
MidtransError(message, httpStatusCode, ApiResponse, rawStatusCode) ==
  HcRejected("MidtransError", message, httpStatusCode, ApiResponse, rawStatusCode)
\* new MidtransNotificationError(message)
MidtransNotificationError(message) ==
  HcRejected("MidtransNotificationError", message, null, null, undefined)
TypeErrorThrown(message) == HcRejected("TypeError", message, null, null, undefined)

\* The body option of a request that carries none.
NoBody == undefined

\* The url and options handed to fetch: the body is attached for a method
\* other than get and a payload with at least one key.
RequestOptions(httpMethod, serverKey, url, reqBodyPayload) ==
  [method |-> ToUpperCase(httpMethod), url |-> url,
   authorization |-> "Basic " \o btoa(serverKey \o ":"),
   userAgent |-> "midtransclient-nodejs/2.0.0",
   body |-> IF ToLowerCase(httpMethod) # "get" /\ Len(reqBodyPayload.members) > 0
            THEN JSONStringify(reqBodyPayload.members) ELSE NoBody]

ApiErrorMessage(code, text) ==
  "Midtrans API is returning API error. HTTP status code: " \o code
  \o ". API response: " \o text

\* A variant of the response check without the exemption of 407.
CheckResponseNoExemption(status, text) ==
  LET data == JSONParse(text)
      code == GetMember(data, "status_code")
  IN  IF data.type = THROW
      THEN MidtransError("Unexpected error during Midtrans API request", null, null, undefined)
      ELSE IF code = THROW
      THEN MidtransError("Midtrans API request failed", null, null, undefined)
      ELSE IF ToBoolean(code) /\ NumberOf(code) >= 400
      THEN MidtransError(ApiErrorMessage(StringOf(code), text),
                         StatusText(NumberOf(code)), text, StatusText(status))
      ELSE IF status \notin 200..299
      THEN MidtransError(ApiErrorMessage(StatusText(status), text), StatusText(status), text,
                         StatusText(status))
      ELSE HcResolved(text)

\* The try block of HttpClient.request once fetch has resolved with the
\* given HTTP status and body text, and its catch block: the body is
\* parsed, a body status_code of at least 400 other than 407 is an API
\* error, then a status outside 200..299 is an HTTP error, else the data
\* is returned.  An error that is not a MidtransError is wrapped in one.
CheckResponse(status, text) ==
  LET data == JSONParse(text)
      code == GetMember(data, "status_code")
  IN  IF data.type = THROW
      THEN MidtransError("Unexpected error during Midtrans API request", null, null, undefined)
      ELSE IF code = THROW
      THEN MidtransError("Midtrans API request failed", null, null, undefined)
      ELSE IF ToBoolean(code) /\ NumberOf(code) >= 400 /\ NumberOf(code) # 407
      THEN MidtransError(ApiErrorMessage(StringOf(code), text),
                         StatusText(NumberOf(code)), text, StatusText(status))
      ELSE IF status \notin 200..299
      THEN MidtransError(ApiErrorMessage(StatusText(status), text), StatusText(status), text,
                         StatusText(status))
      ELSE HcResolved(text)

\* The part of HttpClient.request before its first await: the call as it
\* stands once the parameters are parsed and the request is handed to
\* fetch, or the rejection when a parameter does not parse.
RequestStart(call, httpMethod, serverKey, requestUrl, firstParam, secondParam) ==
  LET isGet == ToLowerCase(httpMethod) = "get"
      reqQueryParam == parseParam(IF isGet THEN firstParam ELSE secondParam)
      reqBodyPayload == parseParam(IF isGet THEN secondParam ELSE firstParam)
      firstFails == (IF isGet THEN reqQueryParam ELSE reqBodyPayload).type = THROW
      paramType == IF isGet = firstFails THEN "query parameters" ELSE "body parameters"
  IN  IF reqQueryParam.type = THROW \/ reqBodyPayload.type = THROW
      THEN [call EXCEPT !.pc = "settled",
              !.result = MidtransError("Failed to parse '" \o paramType
                                       \o "' string as JSON", null, null, undefined)]
      ELSE IF reqQueryParam.type = "null"
              \/ (~isGet /\ reqBodyPayload.type = "null")
      THEN [call EXCEPT !.pc = "settled",
              !.result = TypeErrorThrown("Cannot convert undefined or null to object")]
      ELSE [call EXCEPT !.pc = "fetching",
              !.requests = Append(@, RequestOptions(httpMethod, serverKey,
                                    buildUrl(requestUrl, reqQueryParam), reqBodyPayload))]

\* Transaction.status(transactionId)
TransactionStatus(call, isProduction, serverKey, transactionId) ==
  RequestStart(call, MethodGet, serverKey,
               getCoreApiBaseUrl(isProduction) \o "/v2/" \o StringOf(transactionId) \o "/status",
               JsObject(BodyEmpty), JsObject(BodyEmpty))

\* Transaction.notification(notificationObj)
TransactionNotification(call, isProduction, serverKey, notificationObj) ==
  LET parsedNotification ==
        IF notificationObj.type = "string" THEN JSONParse(notificationObj.text)
        ELSE notificationObj
      id == GetMember(parsedNotification, "transaction_id")
  IN  IF parsedNotification.type = THROW
      THEN [call EXCEPT !.pc = "settled",
              !.result = MidtransNotificationError(
                           "Failed to parse 'notification' string as JSON")]
      ELSE IF id = THROW
      THEN [call EXCEPT !.pc = "settled",
              !.result = TypeErrorThrown("Cannot read properties of null")]
      ELSE IF ~ToBoolean(id)
      THEN [call EXCEPT !.pc = "settled",
              !.result = MidtransNotificationError(
                           "Notification object must contain transaction_id")]
      ELSE TransactionStatus(call, isProduction, serverKey, id)

\* Iris.getTransactionHistory(parameter)
getTransactionHistory(call, isProduction, serverKey, parameter) ==
  RequestStart(call, MethodGet, serverKey, getIrisApiBaseUrl(isProduction) \o "/statements",
               JsObject(BodyEmpty), parameter)

ServerKeys == {"SB-Mid-server-1"}
HttpMethods == {MethodGet, MethodGET, MethodPost}
RequestParams ==
  {JsObject(BodyEmpty), JsObject(BodyA), JsObject(QuerySpace),
   JsString(JSONStringify(HistoryRange)), JsString("{oops"), JsString("null")}
NotificationInputs ==
  {JsObject(NotificationA), JsObject(NotificationNumericId), JsObject(NotificationEmptyId),
   JsObject(NotificationNoId), JsString(JSONStringify(NotificationA)),
   JsString(JSONStringify(NotificationNoId)), JsString("{oops"), JsString("null"),
   JsString("42")}
HistoryParameters ==
  {JsObject(BodyEmpty), JsObject(HistoryRange), JsObject(HistoryFrom),
   JsString(JSONStringify(HistoryRange))}
ResponseTexts ==
  {JSONStringify(StatusBody(code)) : code \in StatusCodeValues}
  \cup {JSONStringify(BalanceBody), "null", "<html>"}

NoArgument == JsObject(BodyEmpty)

\* A call of one of the three methods, not yet made.
NewCall ==
  [pc |-> "idle", api |-> "", argument |-> NoArgument, method |-> "",
   first |-> NoArgument, second |-> NoArgument, isProduction |-> FALSE,
   requests |-> << >>, httpStatus |-> "", received |-> "", result |-> HcPending]

InitHttp ==
  /\ hc = NewCall
  /\ rc = << >>
  /\ SymUnused /\ RsaUnused /\ ObjUnused /\ WhUnused /\ OpUnused

\* httpClient.request(httpMethod, serverKey, requestUrl, firstParam, secondParam)
HcRequest ==
  /\ hc.pc = "idle"
  /\ \E httpMethod \in HttpMethods, serverKey \in ServerKeys,
        firstParam \in RequestParams, secondParam \in RequestParams :
       hc' = RequestStart([hc EXCEPT !.api = "request", !.method = Str(httpMethod),
                              !.first = firstParam, !.second = secondParam],
                          httpMethod, serverKey, getCoreApiBaseUrl(FALSE) \o "/v2/charge",
                          firstParam, secondParam)
  /\ UNCHANGED <<rc, symVars, rsaVars, objVars, wh, opVars>>

\* transaction.notification(notificationObj)
HcNotification ==
  /\ hc.pc = "idle"
  /\ \E isProduction \in BOOLEAN, serverKey \in ServerKeys,
        notificationObj \in NotificationInputs :
       hc' = TransactionNotification(
               [hc EXCEPT !.api = "notification", !.argument = notificationObj,
                          !.isProduction = isProduction],
               isProduction, serverKey, notificationObj)
  /\ UNCHANGED <<rc, symVars, rsaVars, objVars, wh, opVars>>

\* iris.getTransactionHistory(parameter)
HcGetTransactionHistory ==
  /\ hc.pc = "idle"
  /\ \E isProduction \in BOOLEAN, serverKey \in ServerKeys,
        parameter \in HistoryParameters :
       hc' = getTransactionHistory(
               [hc EXCEPT !.api = "getTransactionHistory", !.argument = parameter,
                          !.isProduction = isProduction],
               isProduction, serverKey, parameter)
  /\ UNCHANGED <<rc, symVars, rsaVars, objVars, wh, opVars>>

\* fetch resolves: the status line and the headers of the response have
\* arrived, and response.json() is awaited.
HcFetchResolves ==
  /\ hc.pc = "fetching"
  /\ \E status \in StatusNumbers :
       hc' = [hc EXCEPT !.pc = "reading", !.httpStatus = StatusText(status)]
  /\ UNCHANGED <<rc, symVars, rsaVars, objVars, wh, opVars>>

\* The body has arrived and response.json() settles: the promise settles as
\* the checks of the response decide.
HcResponse ==
  /\ hc.pc = "reading"
  /\ \E status \in StatusNumbers, text \in ResponseTexts :
       /\ StatusText(status) = hc.httpStatus
       /\ hc' = [hc EXCEPT !.pc = "settled", !.received = text,
                           !.result = CheckResponse(status, text)]
  /\ UNCHANGED <<rc, symVars, rsaVars, objVars, wh, opVars>>

\* The body stream breaks before the body is complete: response.json()
\* rejects with a TypeError, which the catch reports as a failed request.
HcBodyFails ==
  /\ hc.pc = "reading"
  /\ hc' = [hc EXCEPT !.pc = "settled",
                      !.result = MidtransError("Midtrans API request failed", null, null, undefined)]
  /\ UNCHANGED <<rc, symVars, rsaVars, objVars, wh, opVars>>

\* fetch rejects with a TypeError (no connection): wrapped in a
\* MidtransError without status code and response.
HcFetchFails ==
  /\ hc.pc = "fetching"
  /\ hc' = [hc EXCEPT !.pc = "settled",
                      !.result = MidtransError("Midtrans API request failed", null, null, undefined)]
  /\ UNCHANGED <<rc, symVars, rsaVars, objVars, wh, opVars>>

NextHttp ==
  \/ HcRequest
  \/ HcNotification
  \/ HcGetTransactionHistory
  \/ HcFetchResolves
  \/ HcResponse
  \/ HcBodyFails
  \/ HcFetchFails

SpecHttp == InitHttp /\ [][NextHttp]_vars


\* The HTTP status of the response is in the range 200..299 (response.ok).
HttpOk(statusText) == \E n \in 200..299 : n \in StatusNumbers /\ StatusText(n) = statusText

\* The notification handed to Transaction.notification, parsed when it is
\* a string.
NotificationGiven ==
  IF hc.argument.type = "string" THEN JSONParse(hc.argument.text) ELSE hc.argument

\* The notification carries a transaction_id.
HasTransactionId(n) ==
  \E i \in DOMAIN n.members :
    n.members[i].k = "transaction_id" /\ ToBoolean(n.members[i].v)

\* C18: Transaction.notification, given a string that is not valid JSON or
\* a notification without a transaction_id, rejects with a
\* MidtransNotificationError and sends no HTTP request; given anything
\* else it sends exactly one status request for the transaction_id and
\* settles as that request does.
C18_NotificationContract ==
  hc.api = "notification" =>
    IF NotificationGiven.type = THROW \/ ~HasTransactionId(NotificationGiven)
    THEN /\ hc.pc = "settled"
         /\ hc.result.outcome = "rejected"
         /\ hc.result.name = "MidtransNotificationError"
         /\ hc.requests = << >>
    ELSE /\ Len(hc.requests) = 1
         /\ hc.requests[1].method = "GET"
         /\ hc.requests[1].url =
              getCoreApiBaseUrl(hc.isProduction) \o "/v2/"
              \o StringOf(GetMember(NotificationGiven, "transaction_id")) \o "/status"
         /\ hc.pc = "settled" /\ hc.httpStatus # "" =>
              hc.result.outcome = "resolved" \/ hc.result.name = "MidtransError"

\* The parameter handed to Iris.getTransactionHistory, parsed when it is a
\* string.
HistoryGiven ==
  IF hc.argument.type = "string" THEN JSONParse(hc.argument.text) ELSE hc.argument

\* C19: Iris.getTransactionHistory sends one GET request, and for every
\* non-empty parameter the JSON body of that request is the parameter, so
\* that the date range of the caller is in the request.
C19_HistoryCarriesRange ==
  hc.api = "getTransactionHistory" /\ HistoryGiven.members # << >> =>
    /\ Len(hc.requests) = 1
    /\ hc.requests[1].method = "GET"
    /\ hc.requests[1].body = JSONStringify(HistoryGiven.members)

\* The status_code of the body received, when the body is an object that
\* has one.
BodyHasStatusCode ==
  /\ hc.pc = "settled"
  /\ hc.httpStatus # ""
  /\ JSONParse(hc.received).type = "object"
  /\ GetMember(JSONParse(hc.received), "status_code") # undefined
BodyStatusCode == NumberOf(GetMember(JSONParse(hc.received), "status_code"))

\* C20 as stated: every response whose body has status_code 407 makes
\* request resolve with the data, and every response whose body
\* status_code is at least 400 and not 407 makes it reject with a
\* MidtransError carrying that code and the body.
C20_Original ==
  BodyHasStatusCode =>
    /\ BodyStatusCode = 407 => hc.result = HcResolved(hc.received)
    /\ BodyStatusCode >= 400 /\ BodyStatusCode # 407 =>
         /\ hc.result.outcome = "rejected"
         /\ hc.result.name = "MidtransError"
         /\ hc.result.httpStatusCode = StatusText(BodyStatusCode)
         /\ hc.result.ApiResponse = hc.received

\* C20 (amended): a body status_code of 407 is not an API error: with an
\* HTTP status in 200..299 request resolves with the data, with any other
\* HTTP status it rejects with a MidtransError whose httpStatusCode is the
\* HTTP status and whose ApiResponse is the body.  A body status_code of at
\* least 400 other than 407 rejects with a MidtransError whose
\* httpStatusCode is the body status code and whose ApiResponse is the
\* body, whatever the HTTP status.
C20_ProxyCodeIsNotAnApiError ==
  BodyHasStatusCode =>
    /\ BodyStatusCode = 407 /\ HttpOk(hc.httpStatus) => hc.result = HcResolved(hc.received)
    /\ BodyStatusCode = 407 /\ ~HttpOk(hc.httpStatus) =>
         /\ hc.result.outcome = "rejected"
         /\ hc.result.name = "MidtransError"
         /\ hc.result.httpStatusCode = hc.httpStatus
         /\ hc.result.ApiResponse = hc.received
    /\ BodyStatusCode >= 400 /\ BodyStatusCode # 407 =>
         /\ hc.result.outcome = "rejected"
         /\ hc.result.name = "MidtransError"
         /\ hc.result.httpStatusCode = StatusText(BodyStatusCode)
         /\ hc.result.ApiResponse = hc.received

\* A response with HTTP status 200 and body status_code 407 was returned
\* as data.
C20_Witness ==
  /\ hc.pc = "settled"
  /\ hc.api = "request"
  /\ hc.httpStatus = "200"
  /\ hc.received = JSONStringify(StatusBody(Quote("407")))
  /\ hc.result = HcResolved(hc.received)

(***************************************************************************)
(* Claims about the order of the requests of an operation                  *)
(* (SpecOperations).                                                       *)
(***************************************************************************)

\* The request that this step hands to fetch, when it hands one.
Sends(kind) == Len(net') = Len(net) + 1 /\ net'[Len(net')].kind = kind

\* C22 (as stated): a transaction operation called on an instance without
\* access token sends a token request and receives its response before any
\* transaction request is sent, and the Authorization header of the
\* transaction request is "Bearer " and the token returned; when the token
\* response carries no accessToken the operation returns that response and
\* sends no transaction request; an operation called on an instance that
\* was given a non-empty token sends no token request.
C22_TokenThenTransaction ==
  [][ /\ Sends("transaction") =>
           LET r == net'[Len(net')]
           IN /\ snapBi.accessToken # ""
              /\ r.headers["Authorization"] = "Bearer " \o snapBi.accessToken
              /\ \/ /\ snapBi.accessToken = "AT-caller"
                    /\ \A k \in DOMAIN net : net[k].kind = "token" =>
                         frames[net[k].call].op = "getAccessToken"
                 \/ /\ snapBi.accessToken = TokenGranted.accessToken
                    /\ \E k \in DOMAIN net :
                         /\ net[k].kind = "token"
                         /\ frames[net[k].call].op \in TransactionOps
                         /\ frames[net[k].call].pc \notin {"at_sign", "at_wait"}
      /\ \A i \in DOMAIN frames :
           (frames[i].op \in TransactionOps /\ frames[i].pc = "at_wait"
            /\ frames'[i].pc = "done") =>
             /\ frames'[i].result.outcome = "resolved"
             /\ frames'[i].result.accessToken \in {undefined, ""}
             /\ net' = net
      /\ \A i \in DOMAIN frames :
           (frames[i].op \in TransactionOps /\ frames[i].pc = "at_wait"
            /\ frames'[i].pc # "done" /\ frames'[i] # frames[i]) =>
             /\ snapBi'.accessToken = TokenGranted.accessToken
             /\ frames'[i].signedToken = snapBi'.accessToken
      /\ (Len(frames') = Len(frames) + 1 /\ frames'[Len(frames')].op \in TransactionOps) =>
           IF snapBi.accessToken # ""
           THEN frames'[Len(frames')].pc \in {"tx_sign", "done"}
           ELSE frames'[Len(frames')].pc \in {"at_sign", "done"}
    ]_vars

(***************************************************************************)
(* SpecSequential: the operations of one instance called one after the     *)
(* other, each awaited before the next call, and withAccessToken called    *)
(* between them.                                                           *)
(***************************************************************************)

NoneInFlight == \A i \in DOMAIN frames : frames[i].pc = "done"

\* The tokens a caller passes to withAccessToken.
CallerTokens == {"AT-caller", ""}

InitSequential ==
  /\ config \in {MerchantConfig, ConfigSet(MerchantConfig, [isProduction |-> TRUE])}
  /\ \E m \in AllPaymentMethods : snapBi \in PreparedInstances(m)
  /\ now = 0
  /\ frames = << >>
  /\ net = << >>
  /\ hist = NoHistory
  /\ SymUnused /\ RsaUnused /\ LibUnused /\ WhUnused

\* An operation is called when the one before it has settled.
CallSequential == NoneInFlight /\ Call

\* withAccessToken is called between two operations.
WithAccessTokenSequential ==
  /\ NoneInFlight
  /\ BuilderCalls < MaxBuilderCalls
  /\ \E accessToken \in CallerTokens : snapBi' = withAccessToken(snapBi, accessToken)
  /\ hist' = [hist EXCEPT !.other = @ + 1]
  /\ UNCHANGED <<config, now, frames, net, symVars, rsaVars, libVars, wh>>

NextSequential ==
  \/ CallSequential
  \/ WithAccessTokenSequential
  \/ \E i \in DOMAIN frames : AccessTokenSend(i)
  \/ \E i \in DOMAIN frames : AccessTokenResponse(i)
  \/ \E i \in DOMAIN frames : TransactionSend(i)
  \/ \E i \in DOMAIN frames : TransactionResponse(i)

SpecSequential == InitSequential /\ [][NextSequential]_vars

\* The transaction operations among fs that sent a token request and went
\* on to their transaction request: the operations that obtained a token.
ObtainedToken(fs, requests) ==
  {i \in DOMAIN fs :
     /\ fs[i].op \in TransactionOps
     /\ \E k \in DOMAIN requests : requests[k].kind = "token" /\ requests[k].call = i
     /\ \/ fs[i].pc \in {"tx_sign", "tx_wait"}
        \/ \E k \in DOMAIN requests :
             requests[k].kind = "transaction" /\ requests[k].call = i}

\* C23: in a sequence of createPayment, cancel, refund and getStatus calls
\* made one after the other, no operation sends a token request while the
\* instance holds a token, every transaction request carries the token the
\* instance holds, the token the instance holds is replaced only by
\* withAccessToken (an operation stores the token it obtained only when the
\* instance holds none), and as long as withAccessToken is not called at
\* most one operation obtains a token.
C23_TokenReuse ==
  [][ /\ (Sends("token") /\ frames[net'[Len(net')].call].op \in TransactionOps) =>
           snapBi.accessToken = ""
      /\ Sends("transaction") =>
           net'[Len(net')].headers["Authorization"] = "Bearer " \o snapBi.accessToken
      /\ snapBi'.accessToken # snapBi.accessToken =>
           \/ hist'.other = hist.other + 1
           \/ /\ snapBi.accessToken = ""
              /\ snapBi'.accessToken = TokenGranted.accessToken
              /\ \E i \in DOMAIN frames :
                   /\ frames[i].op \in TransactionOps
                   /\ frames[i].pc = "at_wait"
                   /\ frames'[i].pc = "tx_sign"
      /\ hist'.other = 0 => Cardinality(ObtainedToken(frames', net')) <= 1
    ]_vars

\* Two operations were called one after the other on an instance without
\* token: the first obtained one, the second sent no token request and its
\* transaction request carries the token of the first.
C23_Witness ==
  /\ Len(frames) = 2
  /\ hist.other = 0
  /\ ObtainedToken(frames, net) = {1}
  /\ \A k \in DOMAIN net : net[k].kind = "token" => net[k].call = 1
  /\ \E k \in DOMAIN net :
       /\ net[k].kind = "transaction"
       /\ net[k].call = 2
       /\ net[k].headers["Authorization"] = "Bearer " \o TokenGranted.accessToken

(***************************************************************************)
(* Claims about the endpoint table (SpecOperations).                       *)
(***************************************************************************)

\* The endpoint the claim gives an operation on a payment method, "" where
\* it gives none.
Endpoint(op, paymentMethod) ==
  CASE op = "createPayment" /\ paymentMethod = "va" -> CREATE_VA
    [] op = "createPayment" /\ paymentMethod = "qris" -> QRIS_PAYMENT
    [] op = "createPayment" /\ paymentMethod = "directDebit" -> PAYMENT_HOST_TO_HOST
    [] op = "cancel" /\ paymentMethod = "va" -> VA_CANCEL
    [] op = "cancel" /\ paymentMethod = "qris" -> QRIS_CANCEL
    [] op = "cancel" /\ paymentMethod = "directDebit" -> DEBIT_CANCEL
    [] op = "getStatus" /\ paymentMethod = "va" -> VA_STATUS
    [] op = "getStatus" /\ paymentMethod = "qris" -> QRIS_STATUS
    [] op = "getStatus" /\ paymentMethod = "directDebit" -> DEBIT_STATUS
    [] op = "refund" /\ paymentMethod = "qris" -> QRIS_REFUND
    [] op = "refund" /\ paymentMethod = "directDebit" -> DEBIT_REFUND
    [] OTHER -> ""

\* C24: a call of createPayment, cancel or getStatus on 'va', 'qris' or
\* 'directDebit', and of refund on 'qris' or 'directDebit', sets the API
\* path to the endpoint constant of that operation and method, and no two
\* of them share an endpoint; a call of any other operation and method
\* ends rejected with 'Payment method not implemented', leaves the
\* instance (API path and access token included) as it was, and no request
\* of such a call is ever sent.
C24_EndpointTable ==
  [][ /\ (Len(frames') = Len(frames) + 1 /\ frames'[Len(frames')].op \in TransactionOps) =>
           LET f == frames'[Len(frames')]
               path == Endpoint(f.op, snapBi.paymentMethod)
           IN IF path # ""
              THEN /\ snapBi'.apiPath = path
                   /\ f.result # Rejected("Payment method not implemented: "
                                          \o snapBi.paymentMethod)
                   /\ \A op \in TransactionOps, m \in AllPaymentMethods :
                        Endpoint(op, m) = path => op = f.op /\ m = snapBi.paymentMethod
              ELSE /\ f.pc = "done"
                   /\ f.result = Rejected("Payment method not implemented: "
                                          \o snapBi.paymentMethod)
                   /\ snapBi' = snapBi
                   /\ net' = net
      /\ \A k \in DOMAIN net' :
           \/ frames'[net'[k].call].op = "getAccessToken"
           \/ Endpoint(frames'[net'[k].call].op, snapBi'.paymentMethod) # ""
    ]_vars

\* refund was called on a 'va' instance that holds a token and a path set
\* by an earlier cancel: it is rejected, and the requests sent are those of
\* the cancel.
C24_Witness ==
  /\ snapBi.paymentMethod = "va"
  /\ Len(frames) = 2
  /\ frames[1].op = "cancel"
  /\ frames[2].op = "refund"
  /\ frames[2].result = Rejected("Payment method not implemented: va")
  /\ snapBi.apiPath = VA_CANCEL
  /\ snapBi.accessToken = TokenGranted.accessToken
  /\ \A k \in DOMAIN net : net[k].call = 1

(***************************************************************************)
(* Claims about what a transaction request signs (Spec).                   *)
(***************************************************************************)

\* C25 (as stated): every transaction request whose X-SIGNATURE was not
\* overridden is sent to the base URL followed by the path that was signed,
\* and its Authorization header is "Bearer " and the token that was signed,
\* whatever operations and builder calls run on the instance meanwhile.
C25_SignedPathIsSentPath ==
  \A r \in TransactionRequests :
    "X-SIGNATURE" \notin OverriddenNames(r) =>
      /\ r.url = getBaseUrl(config) \o r.signedPath
      /\ r.headers["Authorization"] = "Bearer " \o r.signedToken

(***************************************************************************)
(* Claims about the errors of HttpClient.request (SpecHttp).               *)
(***************************************************************************)

\* C26 (as stated): whatever the method, the parameters (objects, strings
\* that are no JSON, strings that parse to null) and the behaviour of
\* server and network, the promise of HttpClient.request resolves with the
\* parsed response data or rejects with a MidtransError, never with an
\* error of another type.
C26_FailuresAreMidtransErrors ==
  (hc.api = "request" /\ hc.pc = "settled") =>
    \/ hc.result = HcResolved(hc.received)
    \/ hc.result.outcome = "rejected" /\ hc.result.name = "MidtransError"

\* C27 (as stated): when the server has answered with an HTTP status
\* outside 200..299, request rejects with a MidtransError whose
\* httpStatusCode is not null and whose rawHttpClientData.statusCode is the
\* HTTP status received; and a MidtransError whose httpStatusCode is null
\* is produced only when no HTTP response was received.
C27_HttpErrorsKeepStatus ==
  hc.pc = "settled" =>
    /\ (hc.httpStatus # "" /\ ~HttpOk(hc.httpStatus)) =>
         /\ hc.result.outcome = "rejected"
         /\ hc.result.name = "MidtransError"
         /\ hc.result.httpStatusCode # null
         /\ hc.result.rawStatusCode = hc.httpStatus
    /\ (hc.result.name = "MidtransError" /\ hc.result.httpStatusCode = null) =>
         hc.httpStatus = ""

(***************************************************************************)
(* SpecEnvironment: the operations of an instance whose configuration      *)
(* object the caller keeps and may change with set({isProduction}) at any  *)
(* moment, also while an operation is suspended at an await.               *)
(***************************************************************************)

\* config.set({ isProduction: b }) on the SnapBiConfig the instance holds.
\* The history records the call and the clock reading.
ConfigSetProduction ==
  /\ Len(hist.production) < MaxBuilderCalls
  /\ \E b \in BOOLEAN :
       /\ config' = ConfigSet(config, [isProduction |-> b])
       /\ hist' = [hist EXCEPT !.production = Append(@, [at |-> now, value |-> b])]
  /\ UNCHANGED <<snapBi, now, frames, net, symVars, rsaVars, libVars, wh>>

InitEnvironment ==
  /\ config = MerchantConfig
  /\ snapBi \in PreparedInstances("va")
  /\ now = 0
  /\ frames = << >>
  /\ net = << >>
  /\ hist = NoHistory
  /\ SymUnused /\ RsaUnused /\ LibUnused /\ WhUnused

NextEnvironment ==
  \/ ConfigSetProduction
  \/ Call
  \/ \E i \in DOMAIN frames : AccessTokenSend(i)
  \/ \E i \in DOMAIN frames : AccessTokenResponse(i)
  \/ \E i \in DOMAIN frames : TransactionSend(i)
  \/ \E i \in DOMAIN frames : TransactionResponse(i)

SpecEnvironment == InitEnvironment /\ [][NextEnvironment]_vars

\* The paths a request of the instance can carry.
RequestPaths ==
  {ACCESS_TOKEN} \cup {Endpoint(op, m) : op \in TransactionOps, m \in AllPaymentMethods}

\* Request r went to the production host / to the sandbox host.
SentToProduction(r) == \E p \in RequestPaths : r.url = SNAP_BI_PRODUCTION_BASE_URL \o p
SentToSandbox(r) == \E p \in RequestPaths : r.url = SNAP_BI_SANDBOX_BASE_URL \o p

\* isProduction in the configuration when operation i was called: the value
\* of the last set before the call, the constructor's default without one.
ProductionAtCall(i) ==
  LET earlier == {k \in DOMAIN hist.production :
                    hist.production[k].at < frames[i].startedAt}
  IN  IF earlier = {} THEN MerchantConfig.isProduction
      ELSE hist.production[CHOOSE k \in earlier : \A j \in earlier : j <= k].value

\* C21 (as stated): every request goes to the sandbox base URL unless
\* isProduction was true in the configuration when the operation was
\* called, and then to the production base URL; and an instance built
\* without isProduction sends nothing to production before
\* set({isProduction: true}) was called.
C21_EnvironmentOfTheCall ==
  /\ \A r \in Requests :
       IF ProductionAtCall(r.call) THEN SentToProduction(r) ELSE SentToSandbox(r)
  /\ (\A k \in DOMAIN hist.production : ~hist.production[k].value) =>
       \A r \in Requests : ~SentToProduction(r)

====
